---- MODULE Spec2Model ----
(***************************************************************************)
(* A model of the multi-source scraping-and-sentiment pipeline of          *)
(* AI_Scraper_Sentiment_Analyser: the Instagram relevance/dedup filter,    *)
(* the keyword fallback sentiment strategy, the aggregate metrics, the     *)
(* Claude-backed sentiment scorer and the source adapters.                 *)
(*                                                                         *)
(* Texts are finite sequences of tokens.  A token stands for a fixed run   *)
(* of characters (a word, one blank, or a filler run) whose length is      *)
(* given by TokLen, so that len(), slicing, lower(), strip() and           *)
(* "keyword in text" are computed on the token sequence.                   *)
(*                                                                         *)
(* Scores, confidences and ratios are kept exact: scores and confidences   *)
(* as integers in hundredths, quotients as records [num, den].             *)
(***************************************************************************)
EXTENDS Integers, Sequences, FiniteSets, TLC

VARIABLES
    \* InstagramScraper._clean_and_deduplicate_results
    results,            \* the list handed to the filter
    unique_results,     \* the list it returns
    filter_pc,          \* "off" | "ready" | "done"
    \* EnhancedSentimentAnalyzer._fallback_single_analysis
    fb_text,            \* the text handed to the keyword fallback
    fb_result,          \* its result, or NoResult before the call
    fb_pc,              \* "off" | "ready" | "done"
    \* the metrics of EnhancedSentimentAnalyzer.analyze_combined_data
    sentiment_results,  \* the list analyze_sentiment_batch returned
    metrics,            \* total_items_analyzed and overall_metrics
    agg_pc,             \* "off" | "ready" | "done"
    \* EnhancedSentimentAnalyzer: the sentiment scorer
    claude_client,      \* TRUE iff self.claude_client is not None
    sentiment_cache,    \* self.sentiment_cache: cache key -> result
    search_cache,       \* self.search_cache: cache key -> search results
    sc_pc,              \* "off" | "idle" | "chunk" | "items" | "aggregate" | "returned"
    sc_call,            \* the call in progress: operation and arguments
    sc_ret,             \* its outcome and return value
    sc_reqs,            \* the LLM requests it has issued, in order
    sc_path,            \* analyze_sentiment only: the return statement taken
    sc_failed,          \* some step of the call failed: a request raised, an answer
                        \* could not be used, or the connection test was not passed
    market_context,     \* analyze_sentiment_batch: market_context
    all_results,        \* analyze_sentiment_batch: all_results
    batch_i,            \* analyze_sentiment_batch: the loop variable i
    batch_results,      \* _analyze_batch_with_claude: results
    sleeps,             \* the time.sleep(1) calls of the call in progress
    batch_sent,         \* the texts of each batch request the call has sent, in order
    scored,             \* the calls of analyze_sentiment from outside that have returned
    n_calls,            \* the calls that have returned
    \* one source adapter instance (a BaseScraper subclass)
    adapter,            \* its class: "news" | "youtube" | "reddit" | "twitter" | "instagram" | "claude"
    secret,             \* TRUE iff Config holds the credentials its constructor reads
    api_client,         \* TRUE iff the constructor built self.youtube / self.reddit / self.claude_client
    working_token,      \* InstagramScraper: TRUE iff self.working_token is not None
    api_type,           \* InstagramScraper: self.api_type, "none" for None
    ad_pc,              \* "off" | "idle" | "returned"
    ad_call,            \* the call in progress: operation, query and limit
    ad_ret,             \* its outcome and return value
    ad_test,            \* is_configured: how the configuration test it ran ended
    ad_fetched,         \* scrape: len(results) before the final cut
    ad_faulted,         \* scrape: some internal step failed or raised
    \* LocationExtractor.extract_location
    le_text,            \* the text handed to extract_location
    le_result,          \* what it returned; None for None
    le_pc,              \* "off" | "ready" | "done"
    \* the Streamlit application (ui/app.py); its analyzer is claude_client and
    \* sentiment_cache above
    components,         \* initialize_components(): the scrapers and the analyzer
    pl_scraped_data,       \* main: scraped_data, source -> processed items
    comprehensive_analysis, \* what perform_comprehensive_analysis returned
    pl_pc,              \* "off" | "start" | "ready" | "loop" | "done" | "stopped"
    pl_i,               \* main: the place of the loop in configured_scrapers
    pl_providers,       \* whether the providers answer during the run: "up" | "down"
    pl_tried,           \* source -> for each raw item, the strategies tried on it
    pl_db,              \* how the database answers during the run
    pl_inserts,         \* source -> the insert_sentiment_data calls made and their outcomes
    \* TextCleaner.clean_text
    cl_text,            \* the text handed to clean_text
    cl_fault,           \* the step of it that raises: "none" | "tokenize" | "stem"
    cl_result,          \* what it returned
    cl_pc,              \* "off" | "ready" | "done"
    \* InstagramScraper._get_all_post_comments
    gc_pc,              \* "off" | "idle" | "fetching" | "returned"
    gc_url,             \* url: the address the next request goes to
    gc_params,          \* params: TRUE while the fields, limit and token are sent along
    all_comments        \* all_comments

filterVars == <<results, unique_results, filter_pc>>
fallbackVars == <<fb_text, fb_result, fb_pc>>
aggVars == <<sentiment_results, metrics, agg_pc>>
batchVars == <<market_context, all_results, batch_i, batch_results, sleeps, batch_sent>>
scorerVars == <<claude_client, sentiment_cache, search_cache, sc_pc, sc_call, sc_ret, sc_reqs, sc_path,
                sc_failed, batchVars, scored, n_calls>>
adapterVars == <<adapter, secret, api_client, working_token, api_type, ad_pc, ad_call,
                 ad_ret, ad_test, ad_fetched, ad_faulted>>
extractorVars == <<le_text, le_result, le_pc>>
pipelineVars ==
    <<components, pl_scraped_data, comprehensive_analysis, pl_pc, pl_i, pl_providers, pl_tried,
      pl_db, pl_inserts>>
cleanerVars == <<cl_text, cl_fault, cl_result, cl_pc>>
commentVars == <<gc_pc, gc_url, gc_params, all_comments>>
vars == <<filterVars, fallbackVars, aggVars, scorerVars, adapterVars, extractorVars,
          pipelineVars, cleanerVars, commentVars>>
\* what each component leaves alone
notFilterVars == <<fallbackVars, aggVars, scorerVars, adapterVars, extractorVars, pipelineVars,
    cleanerVars, commentVars>>
notFallbackVars == <<filterVars, aggVars, scorerVars, adapterVars, extractorVars, pipelineVars,
    cleanerVars, commentVars>>
notAggVars == <<filterVars, fallbackVars, scorerVars, adapterVars, extractorVars, pipelineVars,
    cleanerVars, commentVars>>
\* (the scorer's methods other than web_search leave search_cache alone too)
notScorerVars ==
    <<filterVars, fallbackVars, aggVars, adapterVars, extractorVars, pipelineVars, search_cache,
      cleanerVars, commentVars>>
notSearchVars ==
    <<filterVars, fallbackVars, aggVars, adapterVars, extractorVars, pipelineVars,
      sentiment_cache, batchVars, scored, cleanerVars, commentVars>>
notAdapterVars == <<filterVars, fallbackVars, aggVars, scorerVars, extractorVars, pipelineVars,
    cleanerVars, commentVars>>
\* the application leaves alone all but its own variables and its analyzer
notPipelineVars ==
    <<filterVars, fallbackVars, aggVars, adapterVars, extractorVars,
      search_cache, sc_pc, sc_call, sc_ret, sc_reqs, sc_path, sc_failed, batchVars, scored,
      n_calls, cleanerVars, commentVars>>
notCleanerVars ==
    <<filterVars, fallbackVars, aggVars, scorerVars, adapterVars, extractorVars, pipelineVars,
      commentVars>>
notCommentVars ==
    <<filterVars, fallbackVars, aggVars, scorerVars, adapterVars, extractorVars, pipelineVars,
      cleanerVars>>
notExtractorVars == <<filterVars, fallbackVars, aggVars, scorerVars, adapterVars, pipelineVars,
    cleanerVars, commentVars>>

NoResult == [analysis_type |-> "none"]

(***************************************************************************)
(* Bounds of the model.                                                    *)
(***************************************************************************)
MaxBatch == 3       \* longest list handed to the Instagram filter
MaxResults == 3     \* longest enumerated list of sentiment results
MaxTexts == 2       \* longest list of texts handed to analyze_sentiment_batch
MaxCalls == 2       \* calls of the scorer in one run
MaxItems == 1       \* items per source handed to analyze_combined_data
MaxLimit == 4       \* largest limit handed to scrape
MaxFeed == 5        \* most elements a news feed or a tweet stream delivers
MaxVideos == 2      \* most videos a YouTube search delivers
MaxComments == 2    \* most comment threads delivered for one video
MaxPhrases == 2     \* most phrases in a text handed to extract_location

(***************************************************************************)
(* Strings as token sequences.                                             *)
(***************************************************************************)
\* len() of the run of characters a token stands for
TokLen(tok) ==
    CASE tok = " " -> 1
      [] tok = "pad141" -> 141
      [] tok = "pad96" -> 96
      [] OTHER ->
           CASE tok \in {"hyderabad", "Hyderabad", "declining"} -> 9
             [] tok \in {"kondapur"} -> 8
             [] tok \in {"overpriced", "Overpriced"} -> 10
             [] tok \in {", "} -> 2
             [] tok \in {"growth", "modern", "market"} -> 6
             [] tok \in {"great", "Great", "value", "risky", "avoid", "crash"} -> 5
             [] tok \in {"flat", "Flat", "nice", "good"} -> 4
             [] tok \in {"bad", "buy"} -> 3
             [] OTHER -> 4

\* str.lower() on one token
LowerTok(tok) ==
    CASE tok = "Hyderabad" -> "hyderabad"
      [] tok = "Flat" -> "flat"
      [] tok = "Great" -> "great"
      [] tok = "Overpriced" -> "overpriced"
      [] tok = "Hitec" -> "hitec"
      [] tok = "Hitech" -> "hitech"
      [] tok = "City" -> "city"
      [] tok = "Kondapur" -> "kondapur"
      [] tok = "Nanakramguda" -> "nanakramguda"
      [] tok = "The" -> "the"
      [] tok = "Go" -> "go"
      [] tok = "Investing" -> "investing"
      [] tok = "2BHK!" -> "2bhk!"
      [] tok = "#Deal" -> "#deal"
      [] tok = "HTTP://X.in" -> "http://x.in"
      [] tok = "Me@X.in" -> "me@x.in"
      [] OTHER -> tok

\* str.lower()
Lower(txt) == [i \in DOMAIN txt |-> LowerTok(txt[i])]

RECURSIVE StrLen(_)
\* len(text)
StrLen(txt) == IF txt = <<>> THEN 0 ELSE TokLen(Head(txt)) + StrLen(Tail(txt))

RECURSIVE Prefix(_, _)
\* text[:n]; every text of the model has a token boundary at each n it is cut at
Prefix(txt, n) ==
    IF txt = <<>> \/ TokLen(Head(txt)) > n THEN <<>>
    ELSE <<Head(txt)>> \o Prefix(Tail(txt), n - TokLen(Head(txt)))

RECURSIVE LStrip(_)
LStrip(txt) == IF txt # <<>> /\ Head(txt) = " " THEN LStrip(Tail(txt)) ELSE txt

RECURSIVE RStrip(_)
RStrip(txt) ==
    IF txt # <<>> /\ txt[Len(txt)] = " " THEN RStrip(SubSeq(txt, 1, Len(txt) - 1)) ELSE txt

\* str.strip()
Strip(txt) == RStrip(LStrip(txt))

\* the keywords that occur inside a longer token of the model ("bad" in "hyderabad")
Infixes ==
    {<<"bad", "hyderabad">>, <<"price", "overpriced">>,
     <<"hitec", "hitech">>, <<"gachi", "gachibowli">>}

\* "keyword in text": substring search, on a lowercased text
Contains(txt, kw) == \E i \in DOMAIN txt : txt[i] = kw \/ <<kw, txt[i]>> \in Infixes

(***************************************************************************)
(* InstagramScraper: relevance predicate and deduplication filter.         *)
(***************************************************************************)
real_estate_keywords ==
    {"property", "real estate", "apartment", "flat", "house", "villa",
     "investment", "buy", "sell", "rent", "home", "residence",
     "builder", "construction", "realty", "project", "development",
     "bhk", "sqft", "gated community", "amenities", "price", "cost",
     "booking", "launch", "ready to move", "under construction",
     "possession", "rera", "approved", "vastu", "furnished"}

hyderabad_keywords ==
    {"hyderabad", "telangana", "secunderabad", "cyberabad",
     "gachibowli", "hitech city", "jubilee hills", "banjara hills",
     "kondapur", "madhapur", "kukatpally", "miyapur", "begumpet",
     "financial district", "nanakramguda", "manikonda", "kokapet"}

has_real_estate(text_lower) == \E keyword \in real_estate_keywords : Contains(text_lower, keyword)

has_hyderabad_context(text_lower) == \E keyword \in hyderabad_keywords : Contains(text_lower, keyword)

\* a slip of the relevance test: either keyword family is enough
is_location_relevant_either(text, location) ==
    IF text = <<>> THEN FALSE
    ELSE Contains(Lower(text), LowerTok(location))
         \/ has_real_estate(Lower(text)) \/ has_hyderabad_context(Lower(text))

\* InstagramScraper._is_location_relevant; location is one token
is_location_relevant(text, location) ==
    IF text = <<>> THEN FALSE
    ELSE LET text_lower == Lower(text)
             location_lower == LowerTok(location)
         IN  IF Contains(text_lower, location_lower) THEN TRUE
             ELSE has_real_estate(text_lower) /\ has_hyderabad_context(text_lower)

HashPrefixLen == 150    \* result['text'][:150]
MinSubstantial == 15    \* len(result['text'].strip()) > 15

\* a slip of the content hash: the prefix is not lowercased
content_hash_cased(text) == Strip(Prefix(text, HashPrefixLen))

\* content_hash = result['text'][:150].lower().strip()
content_hash(text) == Strip(Lower(Prefix(text, HashPrefixLen)))

\* a slip of the length rule: 15 characters are enough
is_substantial_from(text) == StrLen(Strip(text)) >= MinSubstantial

\* is_substantial = len(result['text'].strip()) > 15
is_substantial_text(text) == StrLen(Strip(text)) > MinSubstantial

RECURSIVE dedup_loop(_, _, _)
\* the for loop of _clean_and_deduplicate_results: rs is what is left of the
\* input, seen_texts and acc (unique_results) are the loop's two accumulators
dedup_loop(rs, seen_texts, acc) ==
    IF rs = <<>> THEN acc
    ELSE LET result == Head(rs)
             h == content_hash(result.text)
             is_substantial == is_substantial_text(result.text)
             is_unique == h \notin seen_texts
             is_relevant == is_location_relevant(result.text, "hyderabad")
         IN  IF is_substantial /\ is_unique /\ is_relevant
             THEN dedup_loop(Tail(rs), seen_texts \cup {h}, Append(acc, result))
             ELSE dedup_loop(Tail(rs), seen_texts, acc)

RECURSIVE dedup_loop_marking(_, _, _)
\* a slip of the loop: the hash of a rejected item is added to seen_texts too
dedup_loop_marking(rs, seen_texts, acc) ==
    IF rs = <<>> THEN acc
    ELSE LET result == Head(rs)
             h == content_hash(result.text)
             is_substantial == is_substantial_text(result.text)
             is_unique == h \notin seen_texts
             is_relevant == is_location_relevant(result.text, "hyderabad")
         IN  IF is_substantial /\ is_unique /\ is_relevant
             THEN dedup_loop_marking(Tail(rs), seen_texts \cup {h}, Append(acc, result))
             ELSE dedup_loop_marking(Tail(rs), seen_texts \cup {h}, acc)

\* the filter with that slip
clean_and_deduplicate_marking(rs) == dedup_loop_marking(rs, {}, <<>>)

\* InstagramScraper._clean_and_deduplicate_results
clean_and_deduplicate_results(rs) == dedup_loop(rs, {}, <<>>)

\* the texts the filter is exercised on
FilterTexts ==
    {<<"hyderabad", " ", "flat", " ", "nice">>,
     <<"Hyderabad", " ", "flat", " ", "nice">>,
     <<"hyderabad", " ", "nice", " ", "nice">>,
     <<"flat", " ", "nice", " ", "nice", " ", "nice">>,
     <<"kondapur", " ", "flat", " ", "nice">>,
     <<"kondapur", " ", "nice", " ", "nice">>,
     <<"hyderabad", " ", "flat">>,
     <<"hyderabad", " ", "great">>,
     <<" ", "hyderabad", " ", "great", " ">>,
     <<"hyderabad", " ", "growth">>,
     <<"hyderabad", "pad141", "flat">>,
     <<"hyderabad", "pad141", "nice">>,
     <<"kondapur", " ", "pad141", "nice">>,
     <<"kondapur", " ", "pad141", "flat">>,
     <<" ", "hyderabad", " ", "flat", " ", "nice">>}

RECURSIVE SeqsUpTo(_, _)
\* the sequences over S of length at most n
SeqsUpTo(S, n) ==
    IF n = 0 THEN {<<>>}
    ELSE LET shorter == SeqsUpTo(S, n - 1)
         IN  shorter \cup {Append(s, x) : s \in {t \in shorter : Len(t) = n - 1}, x \in S}

FilterBatches == SeqsUpTo({[text |-> t] : t \in FilterTexts}, MaxBatch)

IdleFilter == results = <<>> /\ unique_results = <<>> /\ filter_pc = "off"

FilterInit == results \in FilterBatches /\ unique_results = <<>> /\ filter_pc = "ready"

\* one call of _clean_and_deduplicate_results(results)
RunFilter ==
    /\ filter_pc = "ready"
    /\ unique_results' = clean_and_deduplicate_results(results)
    /\ filter_pc' = "done"
    /\ UNCHANGED <<results, notFilterVars>>

(***************************************************************************)
(* EnhancedSentimentAnalyzer: the keyword fallback strategy.               *)
(***************************************************************************)
positive_keywords ==
    {"good", "great", "excellent", "amazing", "fantastic", "wonderful",
     "buy", "invest", "opportunity", "profitable", "growth", "rising",
     "affordable", "value", "deal", "recommended", "bullish", "optimistic",
     "beautiful", "spacious", "convenient", "prime", "luxury", "modern"}

negative_keywords ==
    {"bad", "terrible", "awful", "horrible", "disappointing", "overpriced",
     "expensive", "risky", "avoid", "falling", "crash", "bubble",
     "bearish", "pessimistic", "declining", "loss", "fraud", "scam",
     "small", "cramped", "noisy", "traffic", "pollution", "old"}

Min(a, b) == IF a < b THEN a ELSE b
Max(a, b) == IF a > b THEN a ELSE b
Abs(a) == IF a < 0 THEN -a ELSE a

\* a slip of the positive score: the 0.3 base is left out
positive_score_value_nobase(positive_score) == Min(80, 10 * positive_score)

\* score = min(0.8, 0.3 + (positive_score * 0.1)), in hundredths
positive_score_value(positive_score) == Min(80, 30 + 10 * positive_score)

\* a slip of the negative score: the base is -0.4
negative_score_value_steep(negative_score) == Max(-80, -40 - 10 * negative_score)

\* score = max(-0.8, -0.3 - (negative_score * 0.1)), in hundredths
negative_score_value(negative_score) == Max(-80, -30 - 10 * negative_score)

\* EnhancedSentimentAnalyzer._fallback_single_analysis
fallback_single_analysis(text) ==
    LET text_lower == Lower(text)
        positive_score == Cardinality({w \in positive_keywords : Contains(text_lower, w)})
        negative_score == Cardinality({w \in negative_keywords : Contains(text_lower, w)})
        confidence == Min(60, Abs(positive_score - negative_score) * 15)
    IN  IF positive_score > negative_score
        THEN [sentiment |-> "Positive", score |-> positive_score_value(positive_score),
              confidence |-> confidence, P |-> positive_score, N |-> negative_score,
              analysis_type |-> "fallback"]
        ELSE IF negative_score > positive_score
        THEN [sentiment |-> "Negative", score |-> negative_score_value(negative_score),
              confidence |-> confidence, P |-> positive_score, N |-> negative_score,
              analysis_type |-> "fallback"]
        ELSE [sentiment |-> "Neutral", score |-> 0,
              confidence |-> confidence, P |-> positive_score, N |-> negative_score,
              analysis_type |-> "fallback"]

\* the words the fallback is exercised on
PositiveWords == <<"good", "Great", "buy", "growth", "value", "modern">>
NegativeWords == <<"risky", "avoid", "crash", "overpriced", "declining", "bad">>
OtherWords == {<<>>, <<"market">>, <<"hyderabad">>}

IsIn(S, w) == w \in S

\* "Overpriced, risky, declining market, avoid"
OverpricedText ==
    <<"Overpriced", ", ", "risky", ", ", "declining", " ", "market", ", ", "avoid">>

\* a text: some of the positive words, the first n negative words, and
\* possibly a word that is in neither list; and the text above
FallbackTexts ==
    {SelectSeq(PositiveWords, LAMBDA w : IsIn(S, w)) \o SubSeq(NegativeWords, 1, n) \o o :
        S \in SUBSET {PositiveWords[i] : i \in DOMAIN PositiveWords},
        n \in 0..Len(NegativeWords),
        o \in OtherWords}
    \cup {OverpricedText}

IdleFallback == fb_text = <<>> /\ fb_result = NoResult /\ fb_pc = "off"

FallbackInit == fb_text \in FallbackTexts /\ fb_result = NoResult /\ fb_pc = "ready"

\* one call of _fallback_single_analysis(fb_text)
RunFallback ==
    /\ fb_pc = "ready"
    /\ fb_result' = fallback_single_analysis(fb_text)
    /\ fb_pc' = "done"
    /\ UNCHANGED <<fb_text, notFallbackVars>>

(***************************************************************************)
(* EnhancedSentimentAnalyzer.analyze_combined_data: the overall metrics.   *)
(* A sentiment result is [sentiment, score, confidence], score and         *)
(* confidence in hundredths.                                               *)
(***************************************************************************)
RECURSIVE SumScores(_)
\* sum(r['score'] for r in sentiment_results)
SumScores(rs) == IF rs = <<>> THEN 0 ELSE Head(rs).score + SumScores(Tail(rs))

RECURSIVE SumConfidences(_)
\* sum(r['confidence'] for r in sentiment_results)
SumConfidences(rs) == IF rs = <<>> THEN 0 ELSE Head(rs).confidence + SumConfidences(Tail(rs))

RECURSIVE CountSentiment(_, _)
\* sum(1 for r in sentiment_results if r['sentiment'] == label)
CountSentiment(rs, label) ==
    IF rs = <<>> THEN 0
    ELSE (IF Head(rs).sentiment = label THEN 1 ELSE 0) + CountSentiment(Tail(rs), label)

\* a quotient a / b kept exact; b > 0
Quot(a, b) == [num |-> a, den |-> b]

\* a slip of the neutral count: only the label Neutral is counted
neutral_count_by_label(rs) == CountSentiment(rs, "Neutral")

\* neutral_count = total_items - positive_count - negative_count
neutral_count_of(rs) == Len(rs) - CountSentiment(rs, "Positive") - CountSentiment(rs, "Negative")

\* avg_score = sum(scores) / total_items if total_items > 0 else 0; scores are hundredths
avg_score_of(rs) == IF Len(rs) > 0 THEN Quot(SumScores(rs), 100 * Len(rs)) ELSE Quot(0, 1)

\* a slip of the overall label: the thresholds of the basic report (0.2) are used
overall_sentiment_wide(avg_score) ==
    IF 10 * avg_score.num > 2 * avg_score.den THEN "Positive"
    ELSE IF 10 * avg_score.num < -2 * avg_score.den THEN "Negative"
    ELSE "Neutral"

\* 'Positive' if avg_score > 0.1 else 'Negative' if avg_score < -0.1 else 'Neutral'
overall_sentiment_of(avg_score) ==
    IF 10 * avg_score.num > avg_score.den THEN "Positive"
    ELSE IF 10 * avg_score.num < -avg_score.den THEN "Negative"
    ELSE "Neutral"

\* total_items_analyzed and overall_metrics of the report analyze_combined_data returns
overall_metrics(rs) ==
    LET total_items == Len(rs)
        positive_count == CountSentiment(rs, "Positive")
        negative_count == CountSentiment(rs, "Negative")
    IN  [total_items_analyzed |-> total_items,
         positive_count |-> positive_count,
         negative_count |-> negative_count,
         neutral_count |-> neutral_count_of(rs),
         positive_ratio |-> IF total_items > 0 THEN Quot(positive_count, total_items) ELSE Quot(0, 1),
         negative_ratio |-> IF total_items > 0 THEN Quot(negative_count, total_items) ELSE Quot(0, 1),
         average_sentiment_score |-> avg_score_of(rs),
         average_confidence |-> IF total_items > 0 THEN Quot(SumConfidences(rs), 100 * total_items)
                                ELSE Quot(0, 1),
         overall_sentiment |-> overall_sentiment_of(avg_score_of(rs))]

\* the results the metrics are exercised on: the labels an LLM answer may carry
\* are not validated, so a label outside the three is among them
AggResults ==
    {[sentiment |-> "Positive", score |-> 50, confidence |-> 60],
     [sentiment |-> "Positive", score |-> 10, confidence |-> 70],
     [sentiment |-> "Negative", score |-> -50, confidence |-> 60],
     [sentiment |-> "Neutral", score |-> 0, confidence |-> 0],
     [sentiment |-> "Mixed", score |-> 20, confidence |-> 50]}

\* 6 Positive, 2 Negative, 2 Neutral, scores summing to 3.0
TenItems ==
    [i \in 1..10 |->
        IF i <= 6 THEN [sentiment |-> "Positive", score |-> 70, confidence |-> 60]
        ELSE IF i <= 8 THEN [sentiment |-> "Negative", score |-> -60, confidence |-> 60]
        ELSE [sentiment |-> "Neutral", score |-> 0, confidence |-> 0]]

AggInputs == SeqsUpTo(AggResults, MaxResults) \cup {TenItems}

NoMetrics == [total_items_analyzed |-> -1]

IdleAgg == sentiment_results = <<>> /\ metrics = NoMetrics /\ agg_pc = "off"

AggInit == sentiment_results \in AggInputs /\ metrics = NoMetrics /\ agg_pc = "ready"

\* the metrics analyze_combined_data computes from sentiment_results
RunMetrics ==
    /\ agg_pc = "ready"
    /\ metrics' = overall_metrics(sentiment_results)
    /\ agg_pc' = "done"
    /\ UNCHANGED <<sentiment_results, notAggVars>>

(***************************************************************************)
(* EnhancedSentimentAnalyzer: the Claude-backed scorer.                    *)
(*                                                                         *)
(* The LLM is the environment: each request is answered by a reply drawn   *)
(* from the kinds of answer the code distinguishes.  A result is           *)
(* [analysis_type, sentiment, score, confidence, market_context]; a key    *)
(* the LLM's JSON lacks is Absent, and a JSON value that is not an object  *)
(* has analysis_type NonDict.                                              *)
(***************************************************************************)
None == "<None>"
Absent == "<absent>"
NonDict == "<not an object>"
NoContext == "<no market_context key>"

BatchSize == 10     \* batch_size = 10
CacheKeyLen == 100  \* text[:100]

\* the answers to "Test. Reply: READY"
TestReplies == {"ready", "notready", "raise"}
\* the answers to the market analysis prompt: an object with every key the
\* prompts read, an object lacking some, the object {}, prose, an exception
ContextReplies == {"json_full", "json_partial", "json_empty", "text", "raise"}
\* the answers to the single-text prompt: an object with the keys asked for,
\* an object without them, a JSON value that is no object, prose with
\* 'positive', with 'negative', with neither, an exception
ScoreReplies ==
    {"json_full", "json_partial", "json_nondict",
     "text_positive", "text_negative", "text_neutral", "raise"}
\* the reply to a request that is never issued
Unasked == "<unasked>"
\* one reply per request analyze_sentiment may issue for a location: no market
\* context is asked for without a location, and nothing is asked for after a
\* failed test
SingleReplies(location) ==
    {r \in [test : TestReplies,
            ctx : ContextReplies \cup {Unasked},
            score : ScoreReplies \cup {Unasked}] :
        /\ (r.score = Unasked) <=> (r.test # "ready")
        /\ (r.ctx = Unasked) <=> (r.test # "ready" \/ location = None)}

\* a value, the requests issued to get it, and whether a step failed on the way
Got(value, reqs, failed) == [value |-> value, reqs |-> reqs, failed |-> failed]

\* EnhancedSentimentAnalyzer.is_configured
is_configured(client, reply) ==
    IF ~client THEN Got(FALSE, <<>>, FALSE)
    ELSE Got(reply = "ready", <<"test">>, reply # "ready")

\* A market context is kept as the shape of the dict: "complete" has every key
\* the prompts read (the LLM's full object, _parse_market_analysis_text's dict,
\* _get_fallback_market_context's dict), "partial" lacks some, "empty" is {}.
HasPromptKeys(ctx) == ctx = "complete"

\* bool(market_context)
Truthy(ctx) == ctx # "empty"

\* EnhancedSentimentAnalyzer.analyze_market_context
analyze_market_context(client, reply) ==
    IF ~client THEN Got("complete", <<>>, FALSE)
    ELSE Got(CASE reply = "json_partial" -> "partial"
               [] reply = "json_empty" -> "empty"
               [] OTHER -> "complete",
             <<"context">>, reply = "raise")

\* every dict the code builds itself has a 'reason'; the LLM's JSON has one
\* when it has the keys asked for
Result(analysis_type, sentiment, score, confidence, ctx) ==
    [analysis_type |-> analysis_type, sentiment |-> sentiment, score |-> score,
     confidence |-> confidence, market_context |-> ctx,
     reason |-> IF analysis_type \in {Absent, NonDict} THEN Absent ELSE "text"]

\* the 'Empty text' result of analyze_sentiment
empty_result == Result("empty", "Neutral", 0, 0, NoContext)

\* the texts the scorer is exercised on: two that agree on their first 100
\* characters, an empty one and a blank one
LongGood == <<"good", "pad96", "flat">>
LongBad == <<"good", "pad96", "bad">>
ScorerTexts == {<<>>, <<" ">>, LongGood, LongBad}

\* _fallback_single_analysis in the scorer's result shape
fallback_scored(text) ==
    LET f == fallback_single_analysis(text)
    IN  Result(f.analysis_type, f.sentiment, f.score, f.confidence, NoContext)

\* the same on each of the scorer's texts
FallbackTable == [text \in ScorerTexts |-> fallback_scored(text)]

\* self._fallback_single_analysis(text)
fallback_result(text) ==
    IF text \in ScorerTexts THEN FallbackTable[text] ELSE fallback_scored(text)

\* the result analyze_sentiment builds from prose
text_parsed_result(reply) ==
    CASE reply = "text_positive" -> Result("text_parsed", "Positive", 60, 70, NoContext)
      [] reply = "text_negative" -> Result("text_parsed", "Negative", -60, 70, NoContext)
      [] OTHER -> Result("text_parsed", "Neutral", 0, 70, NoContext)

\* json.loads of the single-text answer
parsed_single(reply) ==
    CASE reply = "json_full" -> Result("comprehensive", "Positive", 70, 80, NoContext)
      [] reply = "json_partial" -> Result(Absent, Absent, Absent, Absent, NoContext)
      [] OTHER -> Result(NonDict, Absent, Absent, Absent, NoContext)

\* cache_key = f"{text[:100]}_{location}"
cache_key(text, location) == <<Prefix(text, CacheKeyLen), location>>

\* a slip of the cache write: nothing is stored
cache_store_nothing(cache, key, result) == cache

\* self.sentiment_cache[cache_key] = result
cache_store(cache, key, result) == [k \in DOMAIN cache \cup {key} |-> IF k = key THEN result ELSE cache[k]]

\* what a call of analyze_sentiment leaves behind
Done(outcome, value, cache, reqs, path, failed) ==
    [outcome |-> outcome, value |-> value, cache |-> cache, reqs |-> reqs, path |-> path,
     failed |-> failed]

\* the try block of analyze_sentiment (lines 580-660); outcome "raised" is an
\* exception leaving the block
single_attempt(cache, client, text, location, r) ==
    LET mc == IF location # None THEN analyze_market_context(client, r.ctx)
              ELSE Got("empty", <<>>, FALSE)
        reqs == mc.reqs \o <<"score">>
    IN  IF r.score = "raise" THEN Done("raised", Absent, cache, reqs, "exception", TRUE)
        ELSE IF r.score \in {"json_full", "json_partial", "json_nondict"}
        THEN IF Truthy(mc.value) /\ r.score = "json_nondict"
             THEN Done("raised", Absent, cache, reqs, "exception", TRUE)
             ELSE LET parsed == parsed_single(r.score)
                      result == IF Truthy(mc.value)
                                THEN [parsed EXCEPT !.market_context = mc.value]
                                ELSE parsed
                  IN  Done("returned", result, cache_store(cache, cache_key(text, location), result),
                           reqs, "json", mc.failed)
        ELSE Done("returned", text_parsed_result(r.score), cache, reqs, "text_parsed", TRUE)

\* a slip of analyze_sentiment: a blank text is not taken for an empty one
analyze_sentiment_unstripped(cache, client, text, location, r) ==
    IF text = <<>>
    THEN Done("returned", empty_result, cache, <<>>, "empty", FALSE)
    ELSE IF cache_key(text, location) \in DOMAIN cache
    THEN Done("returned", cache[cache_key(text, location)], cache, <<>>, "hit", FALSE)
    ELSE LET conf == is_configured(client, r.test)
         IN  IF ~conf.value
             THEN Done("returned", fallback_result(text), cache, conf.reqs, "fallback", conf.failed)
             ELSE LET try == single_attempt(cache, client, text, location, r)
                  IN  IF try.outcome = "raised"
                      THEN Done("returned", fallback_result(text), cache,
                                conf.reqs \o try.reqs, "fallback", TRUE)
                      ELSE [try EXCEPT !.reqs = conf.reqs \o try.reqs]

\* EnhancedSentimentAnalyzer.analyze_sentiment
analyze_sentiment(cache, client, text, location, r) ==
    IF text = <<>> \/ Strip(text) = <<>>
    THEN Done("returned", empty_result, cache, <<>>, "empty", FALSE)
    ELSE IF cache_key(text, location) \in DOMAIN cache
    THEN Done("returned", cache[cache_key(text, location)], cache, <<>>, "hit", FALSE)
    ELSE LET conf == is_configured(client, r.test)
         IN  IF ~conf.value
             THEN Done("returned", fallback_result(text), cache, conf.reqs, "fallback", conf.failed)
             ELSE LET try == single_attempt(cache, client, text, location, r)
                  IN  IF try.outcome = "raised"
                      THEN Done("returned", fallback_result(text), cache,
                                conf.reqs \o try.reqs, "fallback", TRUE)
                      ELSE [try EXCEPT !.reqs = conf.reqs \o try.reqs]

\* the elements of the array the LLM answers the batch prompt with: an object
\* with the keys asked for, an object without them, and a value .get() or
\* float() fails on
BatchElems == {"ok", "odd", "bad"}

\* the arrays a batch of n texts is answered with: every array of up to one
\* element more than the batch for the short batches, and for the long ones
\* the empty array, the array of n objects and the array whose last element
\* cannot be read
BatchArrays(n) ==
    IF n <= MaxTexts THEN SeqsUpTo(BatchElems, n + 1)
    ELSE {<<>>, [i \in 1..n |-> "ok"], [i \in 1..n |-> IF i = n THEN "bad" ELSE "ok"]}

\* the answers to the batch prompt: an exception, prose, a JSON value that
\* cannot be iterated, and arrays of up to one element more than the batch
BatchReplies(n) ==
    {[kind |-> k, items |-> <<>>] : k \in {"raise", "notjson", "noniter"}}
        \cup {[kind |-> "array", items |-> a] : a \in BatchArrays(n)}

\* the dict lines 534-545 build from one element; .get() fills in the defaults
element_result(elem, ctx) ==
    IF elem = "ok" THEN Result("comprehensive", "Positive", 70, 80, ctx)
    ELSE Result("comprehensive", "Neutral", 0, 50, ctx)

RECURSIVE parse_loop(_, _, _, _, _)
\* for i, analysis in enumerate(analysis_results), i counted from 0
parse_loop(items, i, n, ctx, acc) ==
    IF items = <<>> THEN [outcome |-> "returned", results |-> acc]
    ELSE IF i < n
    THEN IF Head(items) = "bad" THEN [outcome |-> "raised", results |-> acc]
         ELSE parse_loop(Tail(items), i + 1, n, ctx, Append(acc, element_result(Head(items), ctx)))
    ELSE parse_loop(Tail(items), i + 1, n, ctx, acc)

\* for text in texts: results.append(self._fallback_single_analysis(text))
fallback_all(texts) == [i \in DOMAIN texts |-> fallback_result(texts[i])]

\* the try block of _analyze_batch_with_claude up to the JSON loop (476-545);
\* outcome "individual" is the JSONDecodeError handler being entered
batch_attempt(texts, ctx, reply) ==
    IF ~HasPromptKeys(ctx)
    THEN [outcome |-> "raised", results |-> <<>>, reqs |-> <<>>, failed |-> TRUE]
    ELSE IF reply.kind \in {"raise", "noniter"}
    THEN [outcome |-> "raised", results |-> <<>>, reqs |-> <<"batch">>, failed |-> TRUE]
    ELSE IF reply.kind = "notjson"
    THEN [outcome |-> "individual", results |-> <<>>, reqs |-> <<"batch">>, failed |-> TRUE]
    ELSE LET loop == parse_loop(reply.items, 0, Len(texts), ctx, <<>>)
         IN  [outcome |-> loop.outcome, results |-> loop.results, reqs |-> <<"batch">>,
              failed |-> loop.outcome = "raised"]

\* a slip of the except handler of _analyze_batch_with_claude: results is reset
\* (not what the code does)
batch_handler_reset(texts, partial) == fallback_all(texts)

\* the except handler of _analyze_batch_with_claude (553-557): the fallback
\* results are appended to whatever results already holds
batch_handler(texts, partial) == partial \o fallback_all(texts)

\* EnhancedSentimentAnalyzer._analyze_batch_with_claude, but for the
\* individual analyses of its JSONDecodeError handler
analyze_batch_with_claude(texts, ctx, reply) ==
    LET try == batch_attempt(texts, ctx, reply)
    IN  IF try.outcome = "raised"
        THEN [try EXCEPT !.outcome = "returned", !.results = batch_handler(texts, try.results)]
        ELSE try

Locations == {None, "kondapur"}
BatchInputs == SeqsUpTo(ScorerTexts, MaxTexts)

NoCall == [op |-> "none", text |-> <<>>, texts |-> <<>>, location |-> None, data |-> <<>>]
NoRet == [outcome |-> "none", value |-> <<>>]
Returned(value) == [outcome |-> "returned", value |-> value]

IdleScorer ==
    /\ claude_client = FALSE /\ sentiment_cache = <<>> /\ search_cache = <<>> /\ sc_pc = "off"
    /\ sc_call = NoCall /\ sc_ret = NoRet /\ sc_reqs = <<>> /\ sc_path = "none"
    /\ sc_failed = FALSE
    /\ market_context = "none" /\ all_results = <<>> /\ batch_i = 0 /\ batch_results = <<>>
    /\ sleeps = 0 /\ batch_sent = <<>> /\ scored = {} /\ n_calls = 0

\* EnhancedSentimentAnalyzer.__init__: a client if there is an API key and the
\* constructor did not fail, and two empty caches
ScorerInit ==
    /\ claude_client \in BOOLEAN /\ sentiment_cache = <<>> /\ search_cache = <<>>
    /\ sc_pc = "idle"
    /\ sc_call = NoCall /\ sc_ret = NoRet /\ sc_reqs = <<>> /\ sc_path = "none"
    /\ sc_failed = FALSE
    /\ market_context = "none" /\ all_results = <<>> /\ batch_i = 0 /\ batch_results = <<>>
    /\ sleeps = 0 /\ batch_sent = <<>> /\ scored = {} /\ n_calls = 0

\* a call of analyze_sentiment(text, location) from outside
ScoreOne ==
    /\ sc_pc = "idle" /\ n_calls < MaxCalls
    /\ \E text \in ScorerTexts, location \in Locations :
       \E r \in SingleReplies(location) :
          LET d == analyze_sentiment(sentiment_cache, claude_client, text, location, r)
          IN  /\ sc_call' = [NoCall EXCEPT !.op = "one", !.text = text, !.location = location]
              /\ sc_ret' = [outcome |-> d.outcome, value |-> d.value]
              /\ sentiment_cache' = d.cache
              /\ sc_reqs' = d.reqs
              /\ sc_path' = d.path
              /\ sc_failed' = d.failed
    /\ sc_pc' = "returned"
    /\ UNCHANGED <<claude_client, batchVars, scored, n_calls, notScorerVars>>

\* analyze_sentiment_batch returns value: to the caller, or to
\* analyze_combined_data, which goes on with its metrics
BatchReturns(op, value) ==
    /\ all_results' = value
    /\ IF op = "batch"
       THEN sc_pc' = "returned" /\ sc_ret' = Returned(value)
       ELSE sc_pc' = "aggregate" /\ sc_ret' = sc_ret

\* analyze_sentiment_batch up to its loop (442-455); reqs and failed are the
\* requests and failures of the call so far
StartBatch(op, texts, test, ctx, reqs, failed) ==
    IF texts = <<>>
    THEN /\ BatchReturns(op, <<>>)
         /\ sc_reqs' = reqs
         /\ sc_failed' = failed
         /\ UNCHANGED <<market_context, batch_i, batch_results, sleeps, batch_sent>>
    ELSE LET conf == is_configured(claude_client, test)
         IN  IF ~conf.value
             THEN /\ BatchReturns(op, fallback_all(texts))
                  /\ sc_reqs' = reqs \o conf.reqs
                  /\ sc_failed' = (failed \/ conf.failed)
                  /\ UNCHANGED <<market_context, batch_i, batch_results, sleeps, batch_sent>>
             ELSE LET mc == analyze_market_context(claude_client, ctx)
                  IN  /\ market_context' = mc.value
                      /\ all_results' = <<>>
                      /\ batch_i' = 0
                      /\ sc_pc' = "chunk"
                      /\ sc_reqs' = reqs \o conf.reqs \o mc.reqs
                      /\ sc_failed' = (failed \/ mc.failed)
                      /\ UNCHANGED <<sc_ret, batch_results, sleeps, batch_sent>>

\* a call of analyze_sentiment_batch(texts, location) from outside
ScoreBatch ==
    /\ sc_pc = "idle" /\ n_calls < MaxCalls
    /\ \E texts \in BatchInputs, location \in Locations, test \in TestReplies, ctx \in ContextReplies :
          /\ sc_call' = [NoCall EXCEPT !.op = "batch", !.texts = texts, !.location = location]
          /\ StartBatch("batch", texts, test, ctx, <<>>, FALSE)
    /\ UNCHANGED <<claude_client, sentiment_cache, sc_path, scored, n_calls, notScorerVars>>

\* the texts as the batch prompt holds them (498-499): text[:500] of each
PromptTextLen == 500
prompt_texts(texts) == [i \in DOMAIN texts |-> Prefix(texts[i], PromptTextLen)]

\* batch_texts = texts[i:i + batch_size]
batch_texts == SubSeq(sc_call.texts, batch_i + 1, Min(batch_i + BatchSize, Len(sc_call.texts)))

\* lines 460-466: the batch's results are collected, and the loop sleeps and
\* goes on, or analyze_sentiment_batch returns
ChunkDone(results_of_batch) ==
    /\ batch_results' = <<>>
    /\ IF batch_i + BatchSize < Len(sc_call.texts)
       THEN /\ all_results' = all_results \o results_of_batch
            /\ sleeps' = sleeps + 1
            /\ batch_i' = batch_i + BatchSize
            /\ sc_pc' = "chunk"
            /\ UNCHANGED sc_ret
       ELSE /\ BatchReturns(sc_call.op, all_results \o results_of_batch)
            /\ UNCHANGED <<sleeps, batch_i>>

\* one call of _analyze_batch_with_claude(batch_texts, location, market_context),
\* up to its return or to the first individual analysis
BatchChunk ==
    /\ sc_pc = "chunk"
    /\ \E reply \in BatchReplies(Len(batch_texts)) :
          LET b == analyze_batch_with_claude(batch_texts, market_context, reply)
          IN  /\ sc_reqs' = sc_reqs \o b.reqs
              /\ batch_sent' = batch_sent \o [k \in DOMAIN b.reqs |-> prompt_texts(batch_texts)]
              /\ sc_failed' = (sc_failed \/ b.failed)
              /\ IF b.outcome = "individual"
                 THEN /\ sc_pc' = "items"
                      /\ batch_results' = <<>>
                      /\ UNCHANGED <<sc_ret, all_results, batch_i, sleeps>>
                 ELSE ChunkDone(b.results)
    /\ UNCHANGED <<claude_client, sentiment_cache, sc_call, sc_path, market_context,
                   scored, n_calls, notScorerVars>>

\* one round of the JSONDecodeError handler's loop (549-551):
\* result = self.analyze_sentiment(text, location); results.append(result)
BatchItem ==
    /\ sc_pc = "items"
    /\ \E r \in SingleReplies(sc_call.location) :
          LET text == batch_texts[Len(batch_results) + 1]
              d == analyze_sentiment(sentiment_cache, claude_client, text, sc_call.location, r)
              results_now == Append(batch_results, d.value)
          IN  /\ sentiment_cache' = d.cache
              /\ sc_reqs' = sc_reqs \o d.reqs
              /\ sc_failed' = (sc_failed \/ d.failed)
              /\ IF Len(results_now) < Len(batch_texts)
                 THEN /\ batch_results' = results_now
                      /\ UNCHANGED <<sc_pc, sc_ret, all_results, batch_i, sleeps>>
                 ELSE ChunkDone(results_now)
    /\ UNCHANGED <<claude_client, sc_call, sc_path, market_context, batch_sent, scored, n_calls,
                   notScorerVars>>

\* the scraped data analyze_combined_data is exercised on: a dict kept as the
\* sequence of its (source, items) pairs, an item being its text ('' is <<>>)
ItemLists == SeqsUpTo(ScorerTexts, MaxItems)
CombinedInputs ==
    {<<>>}
        \cup {<<[source |-> "news", items |-> a]>> : a \in ItemLists}
        \cup {<<[source |-> "news", items |-> a], [source |-> "reddit", items |-> b]>> :
                a \in ItemLists, b \in ItemLists}

\* the answers to the report prompt
ReportReplies == {"json", "notjson", "raise"}

\* source_texts = [item['text'] for item in data_list if item.get('text')]
source_texts(items) == SelectSeq(items, LAMBDA t : t # <<>>)

\* source_data: the texts kept of each source (738-741)
source_data_of(scraped_data) ==
    [i \in DOMAIN scraped_data |->
        [source |-> scraped_data[i].source, texts |-> source_texts(scraped_data[i].items)]]

RECURSIVE all_texts_of(_)
\* all_texts (738-741)
all_texts_of(scraped_data) ==
    IF scraped_data = <<>> THEN <<>>
    ELSE source_texts(Head(scraped_data).items) \o all_texts_of(Tail(scraped_data))

\* seq[a:b] of Python, 0 <= a <= b
Slice(seq, a, b) == SubSeq(seq, a + 1, Min(b, Len(seq)))

RECURSIVE source_loop(_, _, _, _)
\* the loop of lines 765-785 over source_data
source_loop(source_data, rs, start_idx, acc) ==
    IF source_data = <<>> THEN acc
    ELSE LET texts == Head(source_data).texts
             end_idx == start_idx + Len(texts)
             source_results == Slice(rs, start_idx, end_idx)
             entry == [source |-> Head(source_data).source,
                       count |-> Len(source_results),
                       avg_score |-> avg_score_of(source_results),
                       positive_count |-> CountSentiment(source_results, "Positive")]
         IN  source_loop(Tail(source_data), rs, end_idx,
                         IF source_results # <<>> THEN Append(acc, entry) ELSE acc)

\* r['sentiment'], r['score'] and r['confidence'] can all be read
Readable(r) == r.analysis_type # NonDict /\ r.sentiment # Absent

\* EnhancedSentimentAnalyzer._generate_basic_report: line 918 divides by
\* total_items
generate_basic_report(rs) ==
    IF Len(rs) = 0
    THEN [outcome |-> "raised", value |-> "ZeroDivisionError", reqs |-> <<>>, failed |-> TRUE]
    ELSE [outcome |-> "returned", value |-> "basic", reqs |-> <<>>, failed |-> FALSE]

\* EnhancedSentimentAnalyzer._generate_comprehensive_report: line 829 divides
\* by len(sentiment_results); the handler calls _generate_basic_report
generate_comprehensive_report(rs, reply) ==
    IF Len(rs) = 0 THEN generate_basic_report(rs)
    ELSE IF reply = "json"
    THEN [outcome |-> "returned", value |-> "llm", reqs |-> <<"report">>, failed |-> FALSE]
    ELSE [generate_basic_report(rs) EXCEPT !.reqs = <<"report">>, !.failed = TRUE]

ErrorReport(message) == [kind |-> "error", error |-> message]

\* lines 752-815 of analyze_combined_data, the except of 817-819 included
combined_report(client, scraped_data, rs, reply) ==
    IF \E i \in DOMAIN rs : ~Readable(rs[i])
    THEN Got(ErrorReport("Analysis failed"), <<>>, TRUE)
    ELSE LET narrative == IF client THEN generate_comprehensive_report(rs, reply)
                          ELSE generate_basic_report(rs)
         IN  IF narrative.outcome = "raised"
             THEN Got(ErrorReport("Analysis failed"), narrative.reqs, TRUE)
             ELSE Got([kind |-> "report",
                       total_items_analyzed |-> Len(rs),
                       overall_metrics |-> overall_metrics(rs),
                       source_analysis |-> source_loop(source_data_of(scraped_data), rs, 0, <<>>),
                       comprehensive_analysis |-> narrative.value],
                      narrative.reqs, narrative.failed)

\* a call of analyze_combined_data(scraped_data, location) from outside, up to
\* the loop of analyze_sentiment_batch
Combined ==
    /\ sc_pc = "idle" /\ n_calls < MaxCalls
    /\ \E scraped_data \in CombinedInputs, location \in Locations :
          LET all_texts == all_texts_of(scraped_data)
          IN  /\ sc_call' = [NoCall EXCEPT !.op = "combined", !.texts = all_texts,
                                           !.location = location, !.data = scraped_data]
              /\ IF scraped_data = <<>> \/ all_texts = <<>>
                 THEN /\ sc_pc' = "returned"
                      /\ sc_ret' = Returned(ErrorReport(IF scraped_data = <<>> THEN "No data provided"
                                                        ELSE "No text data found"))
                      /\ sc_reqs' = <<>>
                      /\ sc_failed' = FALSE
                      /\ UNCHANGED batchVars
                 ELSE \E ctx0 \in ContextReplies, test \in TestReplies, ctx \in ContextReplies :
                         LET mc0 == analyze_market_context(claude_client, ctx0)
                         IN  StartBatch("combined", all_texts, test, ctx, mc0.reqs, mc0.failed)
    /\ UNCHANGED <<claude_client, sentiment_cache, sc_path, scored, n_calls, notScorerVars>>

\* analyze_combined_data after analyze_sentiment_batch has returned
Aggregate ==
    /\ sc_pc = "aggregate"
    /\ \E reply \in ReportReplies :
          LET c == combined_report(claude_client, sc_call.data, all_results, reply)
          IN  /\ sc_ret' = Returned(c.value)
              /\ sc_reqs' = sc_reqs \o c.reqs
              /\ sc_failed' = (sc_failed \/ c.failed)
    /\ sc_pc' = "returned"
    /\ UNCHANGED <<claude_client, sentiment_cache, sc_call, sc_path, batchVars,
                   scored, n_calls, notScorerVars>>

\* the caller takes the return value; the scorer is ready for its next call
Return ==
    /\ sc_pc = "returned"
    /\ sc_pc' = "idle"
    /\ n_calls' = n_calls + 1
    /\ scored' = IF sc_call.op = "one"
                 THEN scored \cup {[text |-> sc_call.text, location |-> sc_call.location,
                                    path |-> sc_path]}
                 ELSE scored
    /\ sc_call' = NoCall /\ sc_ret' = NoRet /\ sc_reqs' = <<>> /\ sc_path' = "none"
    /\ sc_failed' = FALSE
    /\ market_context' = "none" /\ all_results' = <<>> /\ batch_i' = 0
    /\ batch_results' = <<>> /\ sleeps' = 0 /\ batch_sent' = <<>>
    /\ UNCHANGED <<claude_client, sentiment_cache, notScorerVars>>

(***************************************************************************)
(* LocationExtractor.  A locality or a variant is a phrase: the sequence   *)
(* of the tokens of its lowercase form.                                    *)
(***************************************************************************)
\* "phrase in text_lower": the tokens of the phrase in a row, or a one-word
\* phrase inside a longer word
HasPhrase(text_lower, phrase) ==
    \/ \E i \in 1 .. Len(text_lower) - Len(phrase) + 1 :
          SubSeq(text_lower, i, i + Len(phrase) - 1) = phrase
    \/ Len(phrase) = 1 /\ Contains(text_lower, phrase[1])

\* a gazetteer entry: the name as Config writes it and the phrase of
\* locality.lower()
Loc(name, lower) == [name |-> name, lower |-> lower]

\* Config.HYDERABAD_LOCALITIES, in order
HYDERABAD_LOCALITIES ==
    <<Loc("Kondapur", <<"kondapur">>), Loc("Gachibowli", <<"gachibowli">>),
      Loc("Madhapur", <<"madhapur">>), Loc("Hitech City", <<"hitech", " ", "city">>),
      Loc("Financial District", <<"financial", " ", "district">>),
      Loc("Banjara Hills", <<"banjara", " ", "hills">>),
      Loc("Jubilee Hills", <<"jubilee", " ", "hills">>),
      Loc("Kukatpally", <<"kukatpally">>), Loc("Miyapur", <<"miyapur">>),
      Loc("Begumpet", <<"begumpet">>), Loc("Secunderabad", <<"secunderabad">>),
      Loc("Ameerpet", <<"ameerpet">>), Loc("Somajiguda", <<"somajiguda">>),
      Loc("Abids", <<"abids">>), Loc("Charminar", <<"charminar">>),
      Loc("Dilsukhnagar", <<"dilsukhnagar">>), Loc("Uppal", <<"uppal">>),
      Loc("Kompally", <<"kompally">>), Loc("Bachupally", <<"bachupally">>),
      Loc("Nizampet", <<"nizampet">>), Loc("Manikonda", <<"manikonda">>),
      Loc("Kokapet", <<"kokapet">>), Loc("Nanakramguda", <<"nanakramguda">>),
      Loc("Raidurg", <<"raidurg">>), Loc("Chandanagar", <<"chandanagar">>),
      Loc("Yellahanka", <<"yellahanka">>), Loc("Shamshabad", <<"shamshabad">>),
      Loc("Patancheru", <<"patancheru">>), Loc("Sangareddy", <<"sangareddy">>),
      Loc("Medchal", <<"medchal">>), Loc("LB Nagar", <<"lb", " ", "nagar">>),
      Loc("Vanasthalipuram", <<"vanasthalipuram">>),
      Loc("Hayathnagar", <<"hayathnagar">>), Loc("Ghatkesar", <<"ghatkesar">>),
      Loc("Keesara", <<"keesara">>), Loc("Shamirpet", <<"shamirpet">>),
      Loc("Malkajgiri", <<"malkajgiri">>), Loc("Alwal", <<"alwal">>),
      Loc("Bowenpally", <<"bowenpally">>), Loc("Trimulgherry", <<"trimulgherry">>),
      Loc("Yapral", <<"yapral">>), Loc("Sainikpuri", <<"sainikpuri">>),
      Loc("AS Rao Nagar", <<"as", " ", "rao", " ", "nagar">>), Loc("ECIL", <<"ecil">>),
      Loc("Nagole", <<"nagole">>), Loc("Boduppal", <<"boduppal">>),
      Loc("Ramanthapur", <<"ramanthapur">>), Loc("Tarnaka", <<"tarnaka">>),
      Loc("Himayatnagar", <<"himayatnagar">>), Loc("Narayanguda", <<"narayanguda">>)>>

\* one entry of locality_variations
Variant(variant, standard_name) == [variant |-> variant, standard_name |-> standard_name]

\* locality_variations, in the order of its keys ('gachibowli' is written
\* twice and keeps its first place)
locality_variations ==
    <<Variant(<<"kondapur">>, "kondapur"), Variant(<<"gachi">>, "gachibowli"),
      Variant(<<"gachibowli">>, "gachibowli"), Variant(<<"madhapur">>, "madhapur"),
      Variant(<<"hitech">>, "hitech city"), Variant(<<"hitec">>, "hitech city"),
      Variant(<<"banjara">>, "banjara hills"), Variant(<<"jubilee">>, "jubilee hills"),
      Variant(<<"kukatpally">>, "kukatpally"), Variant(<<"miyapur">>, "miyapur"),
      Variant(<<"secunderabad">>, "secunderabad"), Variant(<<"ameerpet">>, "ameerpet"),
      Variant(<<"dilsukhnagar">>, "dilsukhnagar"), Variant(<<"uppal">>, "uppal"),
      Variant(<<"kompally">>, "kompally"), Variant(<<"manikonda">>, "manikonda"),
      Variant(<<"kokapet">>, "kokapet"),
      Variant(<<"financial", " ", "district">>, "financial district"),
      Variant(<<"nanakramguda">>, "financial district")>>

RECURSIVE locality_loop(_, _)
\* for locality in self.hyderabad_localities
locality_loop(text_lower, i) ==
    IF i > Len(HYDERABAD_LOCALITIES) THEN None
    ELSE IF HasPhrase(text_lower, HYDERABAD_LOCALITIES[i].lower)
    THEN HYDERABAD_LOCALITIES[i].name
    ELSE locality_loop(text_lower, i + 1)

RECURSIVE variation_loop(_, _)
\* for variant, standard_name in locality_variations.items()
variation_loop(text_lower, i) ==
    IF i > Len(locality_variations) THEN None
    ELSE IF HasPhrase(text_lower, locality_variations[i].variant)
    THEN locality_variations[i].standard_name
    ELSE variation_loop(text_lower, i + 1)

\* a slip of extract_location: the variations are consulted first
extract_location_variations_first(text) ==
    IF text = <<>> THEN None
    ELSE LET text_lower == Lower(text)
             standard_name == variation_loop(text_lower, 1)
         IN  IF standard_name # None THEN standard_name
             ELSE locality_loop(text_lower, 1)

\* LocationExtractor.extract_location
extract_location(text) ==
    IF text = <<>> THEN None
    ELSE LET text_lower == Lower(text)
             locality == locality_loop(text_lower, 1)
         IN  IF locality # None THEN locality
             ELSE variation_loop(text_lower, 1)

\* "Great flats near Hitec city"
HitecText == <<"Great", " ", "flats", " ", "near", " ", "Hitec", " ", "city">>

\* the phrases the texts handed to extract_location are made of
ExtractorPhrases ==
    {<<"nice">>, <<"Hitec", " ", "city">>, <<"Hitech", " ", "City">>, <<"Kondapur">>,
     <<"madhapur">>, <<"Nanakramguda">>, <<"gachi">>, <<"jubilee">>, <<"hitech">>}

RECURSIVE JoinPhrases(_)
\* the phrases of a list written one after the other, a blank between them
JoinPhrases(ps) ==
    IF ps = <<>> THEN <<>>
    ELSE IF Len(ps) = 1 THEN ps[1]
    ELSE ps[1] \o <<" ">> \o JoinPhrases(Tail(ps))

ExtractorTexts ==
    {JoinPhrases(ps) : ps \in SeqsUpTo(ExtractorPhrases, MaxPhrases)} \cup {HitecText}

IdleExtractor == le_text = <<>> /\ le_result = None /\ le_pc = "off"

ExtractorInit == le_text \in ExtractorTexts /\ le_result = None /\ le_pc = "ready"

\* one call of extract_location(le_text)
RunExtractor ==
    /\ le_pc = "ready"
    /\ le_result' = extract_location(le_text)
    /\ le_pc' = "done"
    /\ UNCHANGED <<le_text, notExtractorVars>>

(***************************************************************************)
(* Source adapters: the scrapers of src/scrapers.  A provider is whatever  *)
(* answers an adapter's requests; its answers are the inputs of scrape.    *)
(* A step of the code that can raise yields [outcome |-> "raised"], and a  *)
(* try/except is the operator that turns that outcome into a value.        *)
(***************************************************************************)
Adapters == {"news", "youtube", "reddit", "twitter", "instagram", "claude"}

\* the adapters whose constructor reads credentials from Config
NeedsSecret == {"youtube", "reddit", "instagram", "claude"}

\* the adapters whose constructor builds an API client from them
BuildsClient == {"youtube", "reddit", "claude"}

Limits == 0 .. MaxLimit
DefaultLimit == 30  \* scrape_source_data(..., limit: int = 30)
Queries == {"kondapur"}

\* one scraped item: its 'text', whether it is synthetic (metadata.demo), its
\* 'source' key and its metadata['source'] (Absent when the dict has none),
\* and where its 'timestamp' comes from: the origin, or datetime.now()
Tagged(text, demo, source, metadata_source, timestamp) ==
    [text |-> text, demo |-> demo, source |-> source,
     metadata_source |-> metadata_source, timestamp |-> timestamp]

\* the dicts InstagramScraper builds: no 'source' key, metadata.source
\* 'instagram'; the demo generators stamp their items from datetime.now()
Item(text, demo) ==
    Tagged(text, demo, Absent, "instagram", IF demo THEN "now" ELSE "origin")

\* the text of an item a provider delivers
ProviderText == <<"kondapur", " ", "flat", " ", "nice">>
\* the dict of the news, twitter, youtube and reddit adapters: 'text', 'url'
\* and 'timestamp' only
ProviderItem == Tagged(ProviderText, FALSE, Absent, Absent, "origin")
\* NewsScraper on an element without pubDate: pub_date or datetime.now()
UndatedItem == Tagged(ProviderText, FALSE, Absent, Absent, "now")
\* the dicts ClaudeRealEstateScraper builds: no 'source', no metadata
ClaudeItem(response) == Tagged(response, FALSE, Absent, Absent, "now")

\* a slip of the cut seq[:n]: the list is left whole
ListWhole(seq, n) == seq

\* seq[:n] of Python, for any integer n
ListPrefix(seq, n) ==
    IF n >= 0 THEN SubSeq(seq, 1, Min(n, Len(seq)))
    ELSE SubSeq(seq, 1, Max(0, Len(seq) + n))

\* a step that completed with the list gathered so far
Ok(value, faulted) == [outcome |-> "ok", value |-> value, faulted |-> faulted]
\* a step that raised; value is the list gathered when it did
Raised(value) == [outcome |-> "raised", value |-> value, faulted |-> TRUE]

\* what scrape hands to its caller
Scraped(value, fetched, faulted) ==
    [outcome |-> "returned", value |-> value, fetched |-> fetched, faulted |-> faulted]
\* an exception leaving scrape
Escaped(fetched) ==
    [outcome |-> "raised", value |-> <<>>, fetched |-> fetched, faulted |-> TRUE]

\* BaseScraper.is_configured, inherited by NewsScraper and TwitterScraper
base_is_configured == TRUE

(***************************************************************************)
(* NewsScraper                                                             *)
(***************************************************************************)
\* the provider's answer to the RSS request: the request raises, or it
\* answers with a status and <item> elements; an element is "ok", "undated"
\* when it has no pubDate, or "bad" when reading its fields raises
NewsFeeds ==
    {[status |-> "raise", items |-> <<>>], [status |-> "503", items |-> <<>>]}
    \cup {[status |-> "200", items |-> s] : s \in SeqsUpTo({"ok", "undated", "bad"}, MaxFeed)}

RECURSIVE news_items(_, _, _)
\* the for loop of lines 33-49
news_items(items, acc, faulted) ==
    IF items = <<>> THEN Ok(acc, faulted)
    ELSE IF Head(items) = "bad" THEN news_items(Tail(items), acc, TRUE)
    ELSE news_items(Tail(items),
                    Append(acc, IF Head(items) = "undated" THEN UndatedItem ELSE ProviderItem),
                    faulted)

\* the body of the try of lines 23-49
news_try(limit, feed) ==
    IF feed.status = "raise" THEN Raised(<<>>)
    ELSE IF feed.status # "200" THEN Ok(<<>>, TRUE)
    ELSE news_items(ListPrefix(feed.items, limit), <<>>, FALSE)

\* a slip of NewsScraper.scrape: no try around the request
news_scrape_unguarded(limit, feed) ==
    LET body == news_try(limit, feed)
    IN  IF body.outcome = "raised" THEN Escaped(Len(body.value))
        ELSE Scraped(body.value, Len(body.value), body.faulted)

\* NewsScraper.scrape
news_scrape(limit, feed) ==
    LET body == news_try(limit, feed)
    IN  Scraped(body.value, Len(body.value), body.faulted)

(***************************************************************************)
(* TwitterScraper                                                          *)
(***************************************************************************)
\* what the tweet iterator does at each step: it yields a tweet ("ok"), a
\* tweet whose fields cannot be read ("bad"), or it raises
TweetStreams == SeqsUpTo({"ok", "bad", "raise"}, MaxFeed)

RECURSIVE twitter_loop(_, _, _, _, _)
\* the for loop of lines 23-36
twitter_loop(tweets, limit, count, acc, faulted) ==
    IF tweets = <<>> THEN Ok(acc, faulted)
    ELSE IF Head(tweets) = "raise" THEN Raised(acc)
    ELSE IF count >= limit THEN Ok(acc, faulted)
    ELSE IF Head(tweets) = "bad" THEN twitter_loop(Tail(tweets), limit, count, acc, TRUE)
    ELSE twitter_loop(Tail(tweets), limit, count + 1, Append(acc, ProviderItem), faulted)

\* TwitterScraper.scrape
twitter_scrape(limit, tweets) ==
    LET body == twitter_loop(tweets, limit, 0, <<>>, FALSE)
    IN  Scraped(body.value, Len(body.value), body.faulted)

(***************************************************************************)
(* YouTubeScraper                                                          *)
(***************************************************************************)
\* YouTubeScraper.is_configured: self.youtube is not None
youtube_is_configured(client) == client

\* the provider's answer to commentThreads().list for one video: the request
\* raises, or it answers with comment threads; a thread is "ok", or "bad"
\* when it lacks a field the code reads.  "malformed" is a search result
\* without id.videoId
VideoReplies ==
    {[status |-> "raise", comments |-> <<>>], [status |-> "malformed", comments |-> <<>>]}
    \cup {[status |-> "ok", comments |-> s] : s \in SeqsUpTo({"ok", "bad"}, MaxComments)}

\* the provider's answer to search().list
SearchReplies ==
    {[status |-> "raise", videos |-> <<>>]}
    \cup {[status |-> "ok", videos |-> s] : s \in SeqsUpTo(VideoReplies, MaxVideos)}

RECURSIVE youtube_comments(_, _)
\* the for loop of lines 53-61
youtube_comments(comments, acc) ==
    IF comments = <<>> THEN Ok(acc, FALSE)
    ELSE IF Head(comments) = "bad" THEN Raised(acc)
    ELSE youtube_comments(Tail(comments), Append(acc, ProviderItem))

RECURSIVE youtube_videos(_, _, _)
\* the for loop of lines 41-65, with its inner try
youtube_videos(videos, acc, faulted) ==
    IF videos = <<>> THEN Ok(acc, faulted)
    ELSE LET video == Head(videos)
         IN  IF video.status = "malformed" THEN Raised(acc)
             ELSE IF video.status = "raise" THEN youtube_videos(Tail(videos), acc, TRUE)
             ELSE LET inner == youtube_comments(video.comments, acc)
                  IN  youtube_videos(Tail(videos), inner.value, faulted \/ inner.faulted)

\* the body of the try of lines 31-65
youtube_try(search) ==
    IF search.status = "raise" THEN Raised(<<>>)
    ELSE youtube_videos(search.videos, <<>>, FALSE)

\* YouTubeScraper.scrape
youtube_scrape(client, limit, search) ==
    IF ~youtube_is_configured(client) THEN Scraped(<<>>, 0, FALSE)
    ELSE LET body == youtube_try(search)
         IN  Scraped(ListPrefix(body.value, limit), Len(body.value), body.faulted)

(***************************************************************************)
(* RedditScraper                                                           *)
(***************************************************************************)
\* RedditScraper.is_configured: self.reddit is not None
reddit_is_configured(client) == client

subreddits == <<"hyderabad", "india", "IndiaInvestments", "RealEstate">>
TopComments == 5    \* submission.comments[:5]

\* the comments of a submission: "long" has a body of more than 20
\* characters, "short" has a shorter one
CommentLists == {<<>>, <<"short", "long">>, <<"long", "long", "long", "long", "long", "long">>}

\* a submission; fails: replace_more raises after the post was appended
Submissions == [comments : CommentLists, fails : BOOLEAN]

\* the provider's answer to the search of one subreddit
SubredditReplies ==
    {[status |-> "raise", posts |-> <<>>]}
    \cup {[status |-> "ok", posts |-> s] : s \in SeqsUpTo(Submissions, 1)}

RECURSIVE reddit_comments(_, _)
\* the for loop of lines 55-61
reddit_comments(comments, acc) ==
    IF comments = <<>> THEN acc
    ELSE IF Head(comments) = "long" THEN reddit_comments(Tail(comments), Append(acc, ProviderItem))
    ELSE reddit_comments(Tail(comments), acc)

RECURSIVE reddit_submissions(_, _)
\* the for loop of lines 44-61
reddit_submissions(posts, acc) ==
    IF posts = <<>> THEN Ok(acc, FALSE)
    ELSE LET submission == Head(posts)
             with_post == Append(acc, ProviderItem)
         IN  IF submission.fails THEN Raised(with_post)
             ELSE reddit_submissions(Tail(posts),
                      reddit_comments(ListPrefix(submission.comments, TopComments), with_post))

RECURSIVE reddit_subreddits(_, _, _, _)
\* the for loop of lines 39-65, with its inner try; replies[i] answers subreddits[i]
reddit_subreddits(replies, i, acc, faulted) ==
    IF i > Len(subreddits) THEN Ok(acc, faulted)
    ELSE IF replies[i].status = "raise" THEN reddit_subreddits(replies, i + 1, acc, TRUE)
    ELSE LET inner == reddit_submissions(replies[i].posts, acc)
         IN  reddit_subreddits(replies, i + 1, inner.value, faulted \/ inner.faulted)

\* RedditScraper.scrape
reddit_scrape(client, limit, replies) ==
    IF ~reddit_is_configured(client) THEN Scraped(<<>>, 0, FALSE)
    ELSE LET body == reddit_subreddits(replies, 1, <<>>, FALSE)
         IN  Scraped(ListPrefix(body.value, limit), Len(body.value), body.faulted)

(***************************************************************************)
(* ClaudeRealEstateScraper                                                 *)
(***************************************************************************)
\* the answer to the "Say OK" request of is_configured: a text, a text that
\* is blank once stripped, or the request raises
ClaudeTestReplies == {"text", "blank", "raise"}

\* ClaudeRealEstateScraper.is_configured
claude_scraper_is_configured(client, reply) ==
    IF ~client THEN FALSE
    ELSE IF reply = "raise" THEN TRUE
    ELSE reply = "text"

\* the requests of one scrape, in order, by the analysis_type of their items
extractor_queries ==
    <<"comprehensive_market_overview", "investment_sentiment_analysis",
      "recent_developments_news", "comparative_market_analysis",
      "detailed_price_analysis", "market_forecast_analysis",
      "builder_project_analysis">>
additional_queries ==
    <<"infrastructure_challenges", "demographic_lifestyle_analysis",
      "buyer_feedback_analysis">>

\* the answer to one request: a long text of its own ("long"), a long text
\* that is the same for every request ("same"), a short text, an empty text,
\* or the request raises (with "401" in the message for "raise401")
ClaudeAnswers == {"long", "same", "short", "empty", "raise", "raise401"}

\* one answer per request: the provider changes its behaviour at most once
ClaudeScripts ==
    {[i \in 1 .. Len(extractor_queries) + Len(additional_queries) |->
          IF i < k THEN c1 ELSE c2] :
       c1 \in ClaudeAnswers, c2 \in ClaudeAnswers,
       k \in 1 .. Len(extractor_queries) + Len(additional_queries)}

\* ClaudeRealEstateScraper._generate_fallback_analysis
generate_fallback_analysis(location) ==
    <<" ", "market", "pad96", "pad96", " ", location, " ", "growth", " ">>

\* ClaudeRealEstateScraper._query_claude_for_market_data: the text returned
\* for request number i of the scrape
query_claude_for_market_data(i, location, answer) ==
    CASE answer = "long" -> <<(extractor_queries \o additional_queries)[i],
                              "pad96", "pad96", "flat", " ", location>>
      [] answer = "same" -> <<"good", "pad96", "pad96", "flat", " ", location>>
      [] answer = "short" -> <<"nice", " ", "flat">>
      [] answer = "empty" -> <<>>
      [] answer = "raise401" -> <<"avoid", " ", "risky">>
      [] OTHER -> generate_fallback_analysis(location)

RECURSIVE claude_extractors(_, _, _, _)
\* the three extractors of lines 377-392: one request each, an item for
\* each response that is not empty
claude_extractors(script, i, location, acc) ==
    IF i > Len(extractor_queries) THEN acc
    ELSE LET response == query_claude_for_market_data(i, location, script[i])
         IN  claude_extractors(script, i + 1, location,
                 IF response # <<>> THEN Append(acc, ClaudeItem(response)) ELSE acc)

RECURSIVE claude_additional(_, _, _, _, _)
\* the for loop of lines 410-428
claude_additional(script, i, location, limit, acc) ==
    IF i > Len(extractor_queries) + Len(additional_queries) THEN acc
    ELSE IF Len(acc) >= limit THEN acc
    ELSE LET response == query_claude_for_market_data(i, location, script[i])
         IN  claude_additional(script, i + 1, location, limit,
                 IF response # <<>> THEN Append(acc, ClaudeItem(response)) ELSE acc)

ClaudeHashLen == 200    \* result['text'][:200]
ClaudeMinLen == 150     \* len(result['text'].strip()) > 150

RECURSIVE quality_loop(_, _, _)
\* the for loop of lines 437-442
quality_loop(rs, seen_content, acc) ==
    IF rs = <<>> THEN acc
    ELSE LET result == Head(rs)
             h == Strip(Lower(Prefix(result.text, ClaudeHashLen)))
         IN  IF h \notin seen_content /\ StrLen(Strip(result.text)) > ClaudeMinLen
             THEN quality_loop(Tail(rs), seen_content \cup {h}, Append(acc, result))
             ELSE quality_loop(Tail(rs), seen_content, acc)

RECURSIVE claude_asked(_, _, _, _)
\* the answers to the requests that the scrape issued: all of the extractors',
\* and the additional ones while fewer than limit items were gathered
claude_asked(script, i, limit, n) ==
    IF i > Len(script) THEN {}
    ELSE IF i > Len(extractor_queries) /\ n >= limit THEN {}
    ELSE {script[i]} \cup claude_asked(script, i + 1, limit,
                                       IF script[i] = "empty" THEN n ELSE n + 1)

\* ClaudeRealEstateScraper.scrape
claude_scrape(client, query, limit, test, script) ==
    IF ~client THEN Scraped(<<>>, 0, FALSE)
    ELSE IF ~claude_scraper_is_configured(client, test) THEN Scraped(<<>>, 0, TRUE)
    ELSE LET gathered == claude_additional(script, Len(extractor_queries) + 1, query, limit,
                             claude_extractors(script, 1, query, <<>>))
             faulted == test = "raise"
                        \/ claude_asked(script, 1, limit, 0) \cap {"raise", "raise401"} # {}
         IN  Scraped(quality_loop(ListPrefix(gathered, limit), {}, <<>>),
                     Len(gathered), faulted)

(***************************************************************************)
(* InstagramScraper                                                        *)
(***************************************************************************)
\* how the three API tests of is_configured end: the first test that passes,
\* "none" when all three fail, "raise" when an exception reaches line 171
InstagramTests == {"basic_display", "business", "graph", "none", "raise"}

\* InstagramScraper.is_configured: its value and the fields it leaves
instagram_is_configured(token, had_token, had_type, test) ==
    IF ~token
    THEN [value |-> FALSE, working_token |-> had_token, api_type |-> had_type,
          tested |-> "none"]
    ELSE IF test \in {"basic_display", "business", "graph"}
    THEN [value |-> TRUE, working_token |-> TRUE, api_type |-> test, tested |-> "passed"]
    ELSE [value |-> TRUE, working_token |-> had_token, api_type |-> had_type,
          tested |-> "failed"]

\* all_hashtags of _search_all_relevant_hashtags
all_hashtags(location) ==
    (CASE location = "kondapur" ->
            <<"kondapurrealestate", "kondapurproperty", "kondapurapartments",
              "kondapurflats", "kondapurhomes", "hyderabadkondapur",
              "kondapurinvestment", "propertieskondapur">>
       [] OTHER -> <<>>)
    \o <<"hyderabadrealstate", "hyderabadproperty", "realestatehyderabad",
         "propertyinhyderabad", "hyderabadflats", "hyderabadapartments",
         "hyderabadhomes", "hyderabadinvestment", "realestatedeals",
         "propertydeals", "hyderabadbuilders", "realestatemarket">>

NumAccounts == 58           \* len(self.real_estate_accounts)
NumLocationAccounts == 12   \* len(potential_accounts)
DemoFloor == 10             \* if len(results) < 10
DemoCap == 20               \* min(20, limit - len(results))

\* InstagramScraper._generate_hashtag_demo_data
generate_hashtag_demo_data(hashtag, location) ==
    <<Item(<<"Great", " ", "properties", " ", hashtag, " ", location, " ",
             "real estate", " ", "investment">>, TRUE)>>

\* InstagramScraper._generate_business_demo_data: the text does not name the account
generate_business_demo_data(location) ==
    <<Item(<<"project", " ", "launch", " ", location, " ", "amenities", " ", "rera">>, TRUE)>>

\* InstagramScraper._generate_trending_demo_data
generate_trending_demo_data(location) ==
    <<Item(<<"Trending", " ", location, " ", "real estate", " ", "market">>, TRUE)>>

\* demo_posts + demo_comments of _generate_enhanced_demo_data; the fourth
\* post (traffic) has no real-estate keyword
all_demo_data(location) ==
    <<Item(<<"apartment", " ", location, " ", "investment", " ", "Hyderabad">>, TRUE),
      Item(<<"bhk", " ", location, " ", "investment">>, TRUE),
      Item(<<"home", " ", location, " ", "builder", " ", "rera">>, TRUE),
      Item(<<"traffic", " ", location, " ", "great", " ", "nice">>, TRUE),
      Item(<<"property", " ", location, " ", "sell", " ", "investment">>, TRUE),
      Item(<<"project", " ", location, " ", "builder", " ", "flat">>, TRUE),
      Item(<<"live", " ", location, " ", "property", " ", "investment">>, TRUE),
      Item(<<"living", " ", location, " ", "development">>, TRUE),
      Item(<<"considering", " ", location, " ", "investment", " ", "rent">>, TRUE)>>

\* InstagramScraper._generate_enhanced_demo_data
generate_enhanced_demo_data(location, limit) == ListPrefix(all_demo_data(location), limit)

\* the captions a provider delivers; each mentions the location
Captions == <<"c01", "c02", "c03", "c04", "c05", "c06", "c07", "c08", "c09", "c10">>
caption_item(j, location) == Item(<<Captions[j], " ", location, " ", "flat">>, FALSE)

\* what happens in one hashtag or account search: "fail": the API tests of
\* is_configured fail and no media is delivered; otherwise the first test
\* passes and the provider delivers no media ("none"), one post with a short
\* comment ("thread"), or ten posts ("burst")
UnitReplies == {"fail", "none", "thread", "burst"}

\* the posts of one search that reached the provider; u numbers the searches
unit_posts(u, location, reply) ==
    CASE reply = "thread" -> <<caption_item(u, location), Item(<<"nice">>, FALSE)>>
      [] reply = "burst" -> [j \in 1 .. Len(Captions) |-> caption_item(j, location)]
      [] OTHER -> <<>>

\* _search_single_hashtag_comprehensive / _search_single_business_account_comprehensive:
\* ps carries self.working_token and self.api_type, u the searches made so
\* far; demo is the demo data of this hashtag or account
search_single(token, location, script, ps, demo) ==
    LET u == ps.u + 1
        reply == IF u <= Len(script) THEN script[u] ELSE "fail"
        cfg == instagram_is_configured(token, ps.working_token, ps.api_type,
                                       IF reply = "fail" THEN "none" ELSE "basic_display")
        posts == IF ~cfg.value \/ ~cfg.working_token THEN <<>>
                 ELSE unit_posts(u, location, reply)
    IN  [posts |-> IF posts = <<>> THEN demo ELSE posts,
         ps |-> [u |-> u, working_token |-> cfg.working_token, api_type |-> cfg.api_type,
                 faulted |-> ps.faulted \/ (token /\ reply \in {"fail", "none"})]]

RECURSIVE search_all_relevant_hashtags(_, _, _, _, _, _, _)
\* the for loop of _search_all_relevant_hashtags, from hashtag number i on
search_all_relevant_hashtags(token, location, limit, script, ps, i, found) ==
    IF i > Len(all_hashtags(location)) \/ Len(found) >= limit
    THEN [found |-> found, ps |-> ps]
    ELSE LET one == search_single(token, location, script, ps,
                        generate_hashtag_demo_data(all_hashtags(location)[i], location))
         IN  search_all_relevant_hashtags(token, location, limit, script, one.ps,
                                          i + 1, found \o one.posts)

RECURSIVE search_accounts(_, _, _, _, _, _, _, _)
\* the for loops of _search_all_business_accounts and of
\* _search_location_specific_content, over the first n accounts
search_accounts(token, location, limit, script, ps, i, n, found) ==
    IF i > n \/ Len(found) >= limit
    THEN [found |-> found, ps |-> ps]
    ELSE LET one == search_single(token, location, script, ps,
                        generate_business_demo_data(location))
         IN  search_accounts(token, location, limit, script, one.ps,
                             i + 1, n, found \o one.posts)

\* InstagramScraper._discover_public_real_estate_content
discover_public_real_estate_content(location, limit) ==
    ListPrefix(generate_trending_demo_data(location), limit)

\* the searches a scrape with this limit can make
UnitsOf(limit) == (limit \div 2) + (limit \div 3) + (limit \div 4)
\* every course of the searches for the small limits; for the limit the
\* application asks with, the first search goes any way and the others all
\* fail or all find nothing
InstagramScripts(limit) ==
    IF limit \in Limits THEN [1 .. UnitsOf(limit) -> UnitReplies]
    ELSE {[u \in 1 .. UnitsOf(limit) |-> IF u = 1 THEN first ELSE rest] :
              first \in UnitReplies, rest \in {"fail", "none"}}

\* InstagramScraper.scrape; crash: an exception escapes a phase helper
instagram_scrape(token, had_token, had_type, query, limit, crash, script) ==
    LET ps0 == [u |-> 0, working_token |-> had_token, api_type |-> had_type,
                faulted |-> crash]
        p1 == search_all_relevant_hashtags(token, query, limit \div 2, script, ps0,
                                           1, <<>>)
        p2 == search_accounts(token, query, limit \div 3, script, p1.ps,
                              1, NumAccounts, <<>>)
        p3 == search_accounts(token, query, limit \div 4, script, p2.ps,
                              1, NumLocationAccounts, <<>>)
        p4 == discover_public_real_estate_content(query, limit \div 4)
        found == p1.found \o p2.found \o p3.found \o p4
        gathered == IF crash THEN generate_enhanced_demo_data(query, limit)
                    ELSE IF Len(found) < DemoFloor
                    THEN found \o generate_enhanced_demo_data(query,
                                      Min(DemoCap, limit - Len(found)))
                    ELSE found
        unique == clean_and_deduplicate_results(gathered)
        after == IF crash THEN ps0 ELSE p3.ps
    IN  [ret |-> Scraped(ListPrefix(unique, limit), Len(unique), after.faulted),
         working_token |-> after.working_token, api_type |-> after.api_type]

(***************************************************************************)
(* One adapter instance: construction, is_configured, scrape.              *)
(***************************************************************************)
NoAdCall == [op |-> "none", query |-> "<none>", limit |-> 0]
NoAdRet == [outcome |-> "none", value |-> <<>>, available |-> FALSE]

\* no adapter instance exists
IdleAdapter ==
    /\ adapter = "none" /\ secret = FALSE /\ api_client = FALSE
    /\ working_token = FALSE /\ api_type = "none"
    /\ ad_pc = "off" /\ ad_call = NoAdCall /\ ad_ret = NoAdRet
    /\ ad_test = "none" /\ ad_fetched = 0 /\ ad_faulted = FALSE

\* the constructors: the credentials are read from Config, and YouTubeScraper,
\* RedditScraper and ClaudeRealEstateScraper build their client in a try that
\* leaves it None when the build raises
AdapterInit ==
    /\ adapter \in Adapters
    /\ secret \in (IF adapter \in NeedsSecret THEN BOOLEAN ELSE {FALSE})
    /\ api_client \in (IF adapter \in BuildsClient /\ secret THEN BOOLEAN ELSE {FALSE})
    /\ working_token = FALSE /\ api_type = "none"
    /\ ad_pc = "idle" /\ ad_call = NoAdCall /\ ad_ret = NoAdRet
    /\ ad_test = "none" /\ ad_fetched = 0 /\ ad_faulted = FALSE

\* is_configured returns value; tested tells how the test it ran ended
Configured(value, tested) ==
    /\ ad_pc' = "returned"
    /\ ad_call' = [op |-> "is_configured", query |-> "<none>", limit |-> 0]
    /\ ad_ret' = [outcome |-> "returned", value |-> <<>>, available |-> value]
    /\ ad_test' = tested
    /\ ad_fetched' = 0 /\ ad_faulted' = (tested = "failed")
    /\ UNCHANGED <<adapter, secret, api_client, notAdapterVars>>

\* scrape hands ret to its caller, or raises
ScrapeDone(query, limit, ret) ==
    /\ ad_pc' = "returned"
    /\ ad_call' = [op |-> "scrape", query |-> query, limit |-> limit]
    /\ ad_ret' = [outcome |-> ret.outcome, value |-> ret.value, available |-> FALSE]
    /\ ad_fetched' = ret.fetched /\ ad_faulted' = ret.faulted
    /\ ad_test' = "none"
    /\ UNCHANGED <<adapter, secret, api_client, notAdapterVars>>

\* NewsScraper.is_configured and TwitterScraper.is_configured
BaseIsConfigured ==
    /\ ad_pc = "idle" /\ adapter \in {"news", "twitter"}
    /\ Configured(base_is_configured, "none")
    /\ UNCHANGED <<working_token, api_type>>

YouTubeIsConfigured ==
    /\ ad_pc = "idle" /\ adapter = "youtube"
    /\ Configured(youtube_is_configured(api_client), "none")
    /\ UNCHANGED <<working_token, api_type>>

RedditIsConfigured ==
    /\ ad_pc = "idle" /\ adapter = "reddit"
    /\ Configured(reddit_is_configured(api_client), "none")
    /\ UNCHANGED <<working_token, api_type>>

ClaudeIsConfigured ==
    /\ ad_pc = "idle" /\ adapter = "claude"
    /\ \E test \in (IF api_client THEN ClaudeTestReplies ELSE {"raise"}) :
          Configured(claude_scraper_is_configured(api_client, test),
                     IF ~api_client THEN "none"
                     ELSE IF test = "text" THEN "passed" ELSE "failed")
    /\ UNCHANGED <<working_token, api_type>>

InstagramIsConfigured ==
    /\ ad_pc = "idle" /\ adapter = "instagram"
    /\ \E test \in (IF secret THEN InstagramTests ELSE {"none"}) :
          LET cfg == instagram_is_configured(secret, working_token, api_type, test)
          IN  /\ Configured(cfg.value, cfg.tested)
              /\ working_token' = cfg.working_token
              /\ api_type' = cfg.api_type

NewsScrape ==
    /\ ad_pc = "idle" /\ adapter = "news"
    /\ \E query \in Queries, limit \in Limits, feed \in NewsFeeds :
          ScrapeDone(query, limit, news_scrape(limit, feed))
    /\ UNCHANGED <<working_token, api_type>>

TwitterScrape ==
    /\ ad_pc = "idle" /\ adapter = "twitter"
    /\ \E query \in Queries, limit \in Limits, tweets \in TweetStreams :
          ScrapeDone(query, limit, twitter_scrape(limit, tweets))
    /\ UNCHANGED <<working_token, api_type>>

YouTubeScrape ==
    /\ ad_pc = "idle" /\ adapter = "youtube"
    /\ \E query \in Queries, limit \in Limits,
          search \in (IF api_client THEN SearchReplies
                      ELSE {[status |-> "raise", videos |-> <<>>]}) :
          ScrapeDone(query, limit, youtube_scrape(api_client, limit, search))
    /\ UNCHANGED <<working_token, api_type>>

RedditScrape ==
    /\ ad_pc = "idle" /\ adapter = "reddit"
    /\ \E query \in Queries, limit \in Limits,
          replies \in (IF api_client THEN [DOMAIN subreddits -> SubredditReplies]
                       ELSE {[i \in DOMAIN subreddits |->
                                 [status |-> "raise", posts |-> <<>>]]}) :
          ScrapeDone(query, limit, reddit_scrape(api_client, limit, replies))
    /\ UNCHANGED <<working_token, api_type>>

ClaudeScrape ==
    /\ ad_pc = "idle" /\ adapter = "claude"
    /\ \E query \in Queries, limit \in Limits,
          test \in (IF api_client THEN ClaudeTestReplies ELSE {"raise"}),
          script \in (IF api_client THEN ClaudeScripts
                      ELSE {[i \in 1 .. Len(extractor_queries) + Len(additional_queries) |->
                                "raise"]}) :
          ScrapeDone(query, limit, claude_scrape(api_client, query, limit, test, script))
    /\ UNCHANGED <<working_token, api_type>>

InstagramScrape ==
    /\ ad_pc = "idle" /\ adapter = "instagram"
    /\ \E query \in Queries, limit \in Limits \cup {DefaultLimit}, crash \in BOOLEAN :
       \E script \in (IF secret /\ ~crash THEN InstagramScripts(limit)
                      ELSE {[u \in 1 .. UnitsOf(limit) |-> "fail"]}) :
          LET done == instagram_scrape(secret, working_token, api_type,
                                       query, limit, crash, script)
          IN  /\ ScrapeDone(query, limit, done.ret)
              /\ working_token' = done.working_token
              /\ api_type' = done.api_type

\* the caller goes on after a return
AdapterReturn ==
    /\ ad_pc = "returned"
    /\ ad_pc' = "idle"
    /\ ad_call' = NoAdCall /\ ad_ret' = NoAdRet
    /\ ad_test' = "none" /\ ad_fetched' = 0 /\ ad_faulted' = FALSE
    /\ UNCHANGED <<adapter, secret, api_client, working_token, api_type, notAdapterVars>>

\* the state of the adapter's configuration, as is_configured found it
ConfigState ==
    IF adapter \in NeedsSecret /\ ~secret THEN "Unconfigured"
    ELSE IF adapter \in BuildsClient /\ ~api_client THEN "Degraded"
    ELSE IF ad_test = "failed" THEN "Degraded"
    ELSE "Ready"

(***************************************************************************)
(* The application (ui/app.py): initialize_components, and main after a    *)
(* click on the analysis button: the loop over the configured scrapers     *)
(* with scrape_source_data, and perform_comprehensive_analysis.            *)
(***************************************************************************)
\* scrapers_config, in order
scrapers_config == <<"news", "youtube", "reddit", "twitter", "instagram", "claude">>

\* source_name in ['instagram', 'claude']
PremiumSources == {"instagram", "claude"}

\* what initialize_components meets for one scraper: whether the import and
\* the constructor succeed, whether Config holds its credentials, whether its
\* client could be built, and the answer to the test of is_configured
Install(instance, has_secret, client, test) ==
    [instance |-> instance, secret |-> has_secret, client |-> client, test |-> test]

\* the installations the application is started in: news and twitter need no
\* credentials; each other scraper is without its credentials, or has them
\* and a provider that accepts them
Installs(name) ==
    CASE name \in {"news", "twitter"} -> {Install(TRUE, FALSE, FALSE, "none")}
      [] name \in {"youtube", "reddit"} ->
           {Install(TRUE, FALSE, FALSE, "none"), Install(TRUE, TRUE, TRUE, "none")}
      [] name = "instagram" ->
           {Install(TRUE, FALSE, FALSE, "none"), Install(TRUE, TRUE, FALSE, "basic_display")}
      [] name = "claude" ->
           {Install(TRUE, FALSE, FALSE, "raise"), Install(TRUE, TRUE, TRUE, "text")}

\* one installation per scraper
InstallChoices ==
    {[news |-> n, twitter |-> t, youtube |-> y, reddit |-> r, instagram |-> i, claude |-> c] :
        n \in Installs("news"), t \in Installs("twitter"), y \in Installs("youtube"),
        r \in Installs("reddit"), i \in Installs("instagram"), c \in Installs("claude")}

\* scraper_instance.is_configured() at lines 95-97
scraper_is_configured(name, inst) ==
    CASE name \in {"news", "twitter"} -> base_is_configured
      [] name = "youtube" -> youtube_is_configured(inst.client)
      [] name = "reddit" -> reddit_is_configured(inst.client)
      [] name = "claude" -> claude_scraper_is_configured(inst.client, inst.test)
      [] name = "instagram" ->
           instagram_is_configured(inst.secret, FALSE, "none", inst.test).value

\* components['scrapers'][name]; working_token is what is_configured left in
\* the InstagramScraper
scraper_info(name, inst) ==
    [instance |-> inst.instance,
     configured |-> inst.instance /\ scraper_is_configured(name, inst),
     secret |-> inst.secret, client |-> inst.client, test |-> inst.test,
     working_token |-> name = "instagram" /\ inst.instance
                       /\ instagram_is_configured(inst.secret, FALSE, "none",
                                                  inst.test).working_token]

\* what initialize_components meets for the processing components: the imports
\* fail ("missing"), or the analyzer is built without a client, or with one
\* that passes the test of is_configured
AnalyzerInstalls == {"missing", "noclient", "ready"}

\* configured_scrapers of main
configured_scrapers ==
    SelectSeq(scrapers_config, LAMBDA name : components.scrapers[name].configured)

\* the providers during one scrape: they answer, or every request fails
ProviderStates == {"up", "down"}

\* InstagramScraper.scrape(location, 30) of a configured scraper: every
\* search fails, or the first delivers ten posts and the others none
InstagramRaw ==
    [working \in BOOLEAN, state \in ProviderStates |->
        instagram_scrape(TRUE, working, IF working THEN "basic_display" ELSE "none",
                         "kondapur", DefaultLimit, FALSE,
                         [u \in 1 .. UnitsOf(DefaultLimit) |->
                             IF state = "down" THEN "fail"
                             ELSE IF u = 1 THEN "burst" ELSE "none"]).ret.value]

\* scraper.scrape(location, limit=limit) at line 164
raw_data_of(name, info, location, limit, state) ==
    CASE name = "news" ->
           news_scrape(limit, IF state = "up"
                              THEN [status |-> "200", items |-> <<"ok", "undated">>]
                              ELSE [status |-> "raise", items |-> <<>>]).value
      [] name = "twitter" ->
           twitter_scrape(limit, IF state = "up" THEN <<"ok", "ok">> ELSE <<"raise">>).value
      [] name = "youtube" ->
           youtube_scrape(info.client, limit,
               IF state = "up"
               THEN [status |-> "ok", videos |-> <<[status |-> "ok", comments |-> <<"ok">>]>>]
               ELSE [status |-> "raise", videos |-> <<>>]).value
      [] name = "reddit" ->
           reddit_scrape(info.client, limit,
               [i \in DOMAIN subreddits |->
                   IF state = "up" /\ i = 1
                   THEN [status |-> "ok", posts |-> <<[fails |-> FALSE, comments |-> <<>>]>>]
                   ELSE [status |-> "raise", posts |-> <<>>]]).value
      [] name = "claude" ->
           claude_scrape(info.client, location, limit, info.test,
               [i \in 1 .. Len(extractor_queries) + Len(additional_queries) |->
                   IF state = "up" THEN "long" ELSE "raise"]).value
      [] name = "instagram" -> InstagramRaw[info.working_token, state]

\* the answers the LLM gives to the requests of analyze_sentiment while the
\* items of one source are scored
SourceReplies ==
    {[test |-> "ready", ctx |-> "json_full", score |-> "json_full"],
     [test |-> "ready", ctx |-> "json_full", score |-> "json_partial"],
     [test |-> "ready", ctx |-> "json_full", score |-> "raise"],
     [test |-> "notready", ctx |-> Unasked, score |-> Unasked]}

\* Body applied to a value that is computed once
Having(value, Body(_)) == CHOOSE out \in {Body(v) : v \in {value}} : TRUE

\* the sentiment_result of lines 181-203 for one item, the cache it leaves, and
\* what was tried: cloud is TRUE when analyze_sentiment was called, fallback
\* when the keyword fallback produced the result, failed when a request of the
\* cloud attempt failed
sentiment_of(source_name, item, location, analyzer, claude_configured, cache, client, r) ==
    IF ~analyzer
    THEN [result |-> Result("basic", "Neutral", 0, 0, NoContext), cache |-> cache,
          tried |-> [cloud |-> FALSE, fallback |-> FALSE, failed |-> FALSE]]
    ELSE IF claude_configured /\ source_name \in PremiumSources
    THEN Having(analyze_sentiment(cache, client, item.text, location, r),
                LAMBDA d : [result |-> d.value, cache |-> d.cache,
                            tried |-> [cloud |-> TRUE, fallback |-> d.path = "fallback",
                                       failed |-> d.failed]])
    ELSE [result |-> fallback_result(item.text), cache |-> cache,
          tried |-> [cloud |-> FALSE, fallback |-> TRUE, failed |-> FALSE]]

\* processed_item of lines 206-225: the fields the model follows
processed_item(source_name, item, extracted_location, sentiment_result) ==
    [source |-> source_name, location |-> extracted_location,
     sentiment |-> sentiment_result.sentiment, score |-> sentiment_result.score,
     confidence |-> sentiment_result.confidence,
     analysis_type |-> sentiment_result.analysis_type,
     timestamp |-> item.timestamp, demo |-> item.demo]

\* how the database answers an insert: it stores the row, it rejects it, it
\* cannot be reached, or it fails every other time
DbStates == {"up", "rejecting", "down", "flaky"}

\* DatabaseOperations.insert_sentiment_data(data), the n-th call of a source:
\* True, False when add or commit raised (24-27), or the exception of
\* get_session (15), which is outside its try
insert_sentiment_data(db, n) ==
    CASE db = "up" -> "stored"
      [] db = "rejecting" -> "rejected"
      [] db = "down" -> "raised"
      [] OTHER -> IF n % 2 = 1 THEN "raised" ELSE "stored"

\* a slip of lines 242-262: the item joins results only once its row is stored
\* (not what the code does)
store_then_append(items, inserts, processed, db) ==
    IF db = "absent" THEN [results |-> Append(items, processed), inserts |-> inserts]
    ELSE LET outcome == insert_sentiment_data(db, Len(inserts) + 1)
         IN  [results |-> IF outcome = "stored" THEN Append(items, processed) ELSE items,
              inserts |-> Append(inserts, [item |-> processed, outcome |-> outcome])]

\* lines 242-262: results.append(processed_item), then, if components['db_ops'],
\* the insert in a try of its own; db is "absent" when db_ops is None
append_and_store(items, inserts, processed, db) ==
    [results |-> Append(items, processed),
     inserts |-> IF db = "absent" THEN inserts
                 ELSE Append(inserts, [item |-> processed,
                                       outcome |-> insert_sentiment_data(db, Len(inserts) + 1)])]

\* one round of the for loop of lines 172-266 on what the rounds before left
\* in seen (the processed items, the analyzer's cache, what was tried); an
\* item whose sentiment_result lacks 'sentiment', 'score' or 'reason' raises
\* KeyError at 212-215 and is skipped
process_round(source_name, item, location, analyzer, claude_configured, client, r, seen, db) ==
    LET extracted_loc == IF analyzer THEN extract_location(item.text) ELSE None
        extracted_location ==
            Having(extracted_loc, LAMBDA loc : IF loc # None THEN loc ELSE location)
    IN  Having(sentiment_of(source_name, item, location, analyzer, claude_configured,
                            seen.cache, client, r),
               LAMBDA s :
                   IF s.result.analysis_type \in {Absent, NonDict}
                   THEN [seen EXCEPT !.cache = s.cache, !.tried = Append(seen.tried, s.tried)]
                   ELSE Having(append_and_store(seen.results, seen.inserts,
                                                processed_item(source_name, item,
                                                               extracted_location, s.result),
                                                db),
                               LAMBDA kept :
                                   [results |-> kept.results,
                                    inserts |-> kept.inserts,
                                    cache |-> s.cache,
                                    tried |-> Append(seen.tried, s.tried)]))

RECURSIVE process_items(_, _, _, _, _, _, _, _, _, _)
\* the for loop of lines 172-266 from raw_data[i] on
process_items(source_name, raw_data, location, analyzer, claude_configured, client, r, i, seen, db) ==
    IF i > Len(raw_data) THEN seen
    ELSE Having(process_round(source_name, raw_data[i], location, analyzer,
                              claude_configured, client, r, seen, db),
                LAMBDA next :
                    process_items(source_name, raw_data, location, analyzer,
                                  claude_configured, client, r, i + 1, next, db))

\* scrape_source_data(source_name, scraper_info, location, components)
scrape_source_data(source_name, info, location, analyzer, claude_configured, cache, client, state, r, db) ==
    IF ~info.instance \/ ~info.configured
    THEN [results |-> <<>>, inserts |-> <<>>, cache |-> cache, tried |-> <<>>]
    ELSE Having(raw_data_of(source_name, info, location, DefaultLimit, state),
                LAMBDA raw_data :
                    process_items(source_name, raw_data, location, analyzer,
                                  claude_configured, client, r, 1,
                                  [results |-> <<>>, inserts |-> <<>>, cache |-> cache,
                                   tried |-> <<>>],
                                  db))

\* dict[key] = value
DictSet(dict, key, value) ==
    [k \in DOMAIN dict \cup {key} |-> IF k = key THEN value ELSE dict[k]]

\* perform_comprehensive_analysis(scraped_data, location, components), by the
\* kind of dict it returns.  The processed items have 'raw_text' and no 'text',
\* so analyze_combined_data finds no text in them
perform_comprehensive_analysis(data, analyzer, claude_configured) ==
    IF DOMAIN data = {} \/ ~analyzer THEN "empty"
    ELSE IF claude_configured THEN "error: No text data found"
    ELSE IF \A source \in DOMAIN data : data[source] = <<>> THEN "empty"
    ELSE "basic"

NoComponents ==
    [db_ops |-> FALSE, scrapers |-> <<>>, sentiment_analyzer |-> FALSE, claude_configured |-> FALSE]

IdlePipeline ==
    /\ components = NoComponents /\ pl_scraped_data = <<>> /\ comprehensive_analysis = "none"
    /\ pl_pc = "off" /\ pl_i = 0 /\ pl_providers = "up" /\ pl_tried = <<>>
    /\ pl_db = "up" /\ pl_inserts = <<>>

\* the application before initialize_components
PipelineInit ==
    /\ components = NoComponents /\ pl_scraped_data = <<>> /\ comprehensive_analysis = "none"
    /\ pl_pc = "start" /\ pl_i = 0 /\ pl_providers = "up" /\ pl_tried = <<>>
    /\ pl_db = "up" /\ pl_inserts = <<>>

\* initialize_components()
InitializeComponents ==
    /\ pl_pc = "start"
    /\ \E db_ops \in BOOLEAN, installs \in InstallChoices, analyzer \in AnalyzerInstalls :
          /\ claude_client' = (analyzer = "ready")
          /\ components' =
                [db_ops |-> db_ops,
                 scrapers |-> [name \in Adapters |-> scraper_info(name, installs[name])],
                 sentiment_analyzer |-> analyzer # "missing",
                 claude_configured |->
                    /\ analyzer # "missing"
                    /\ is_configured(analyzer = "ready", "ready").value]
    /\ sentiment_cache' = <<>>
    /\ pl_pc' = "ready"
    /\ UNCHANGED <<pl_scraped_data, comprehensive_analysis, pl_i, pl_providers, pl_tried,
                   pl_db, pl_inserts, notPipelineVars>>

\* main, from the click to the loop (lines 1206-1227): st.stop() when no
\* scraper is configured
StartAnalysis ==
    /\ pl_pc = "ready"
    /\ pl_pc' = IF configured_scrapers = <<>> THEN "stopped" ELSE "loop"
    /\ pl_i' = 1
    /\ pl_providers' \in ProviderStates
    /\ pl_db' \in DbStates
    /\ pl_scraped_data' = <<>> /\ pl_tried' = <<>> /\ pl_inserts' = <<>>
    /\ UNCHANGED <<components, comprehensive_analysis, claude_client, sentiment_cache,
                   notPipelineVars>>

\* one round of the loop of lines 1229-1257
ScrapeSource ==
    /\ pl_pc = "loop" /\ pl_i <= Len(configured_scrapers)
    /\ LET source_name == configured_scrapers[pl_i]
           cloud == components.claude_configured /\ source_name \in PremiumSources
           state == pl_providers
       IN  \E r \in (IF cloud THEN SourceReplies ELSE {CHOOSE x \in SourceReplies : TRUE}) :
           \E d \in {scrape_source_data(source_name, components.scrapers[source_name],
                                        "kondapur", components.sentiment_analyzer,
                                        components.claude_configured, sentiment_cache,
                                        claude_client, state, r,
                                        IF components.db_ops THEN pl_db ELSE "absent")} :
              /\ pl_scraped_data' = DictSet(pl_scraped_data, source_name, d.results)
              /\ pl_inserts' = DictSet(pl_inserts, source_name, d.inserts)
              /\ pl_tried' = DictSet(pl_tried, source_name, d.tried)
              /\ sentiment_cache' = d.cache
    /\ pl_i' = pl_i + 1
    /\ UNCHANGED <<components, comprehensive_analysis, pl_pc, pl_providers, pl_db, claude_client,
                   notPipelineVars>>

\* main after the loop (lines 1259-1270)
FinishAnalysis ==
    /\ pl_pc = "loop" /\ pl_i > Len(configured_scrapers)
    /\ comprehensive_analysis' =
          perform_comprehensive_analysis(pl_scraped_data, components.sentiment_analyzer,
                                         components.claude_configured)
    /\ pl_pc' = "done"
    /\ UNCHANGED <<components, pl_scraped_data, pl_i, pl_providers, pl_tried, pl_db, pl_inserts,
                   claude_client, sentiment_cache, notPipelineVars>>

(***************************************************************************)
(* EnhancedSentimentAnalyzer.web_search and its cache.                     *)
(***************************************************************************)
DefaultNumResults == 10     \* web_search(..., num_results: int = 10)

\* the queries web_search is exercised on
SearchQueries == {"property prices", "market sentiment"}

\* the answers to the requests of one web_search: the search request raises,
\* or it answers with a text that mentions none, one or all of the subjects
\* the extractors are called for; the extractors' own requests all succeed or
\* all raise
WebSearchReplies ==
    {[main |-> "raise", subjects |-> {}, extract |-> "ok"]}
    \cup {[main |-> "text", subjects |-> subjects, extract |-> e] :
            subjects \in {{}, {"price"}, {"price", "sentiment", "news"}},
            e \in {"ok", "raise"}}

\* cache_key = f"{query}_{location}_{num_results}"
search_key(query, location, num_results) == <<query, location, num_results>>

\* lines 111-125: one more result for each subject whose extractor returned a dict
extracted_results(reply) ==
    IF reply.extract = "raise" THEN <<>>
    ELSE (IF "price" \in reply.subjects THEN <<"claude_price_analysis">> ELSE <<>>)
         \o (IF "sentiment" \in reply.subjects THEN <<"claude_sentiment_analysis">> ELSE <<>>)
         \o (IF "news" \in reply.subjects THEN <<"claude_news_analysis">> ELSE <<>>)

\* the requests of lines 111-125
extractor_requests(reply) ==
    (IF "price" \in reply.subjects THEN <<"price">> ELSE <<>>)
    \o (IF "sentiment" \in reply.subjects THEN <<"sentiment">> ELSE <<>>)
    \o (IF "news" \in reply.subjects THEN <<"news">> ELSE <<>>)

\* a slip of web_search: the cache is not consulted, so an entry is overwritten
web_search_uncached(cache, client, query, location, num_results, reply) ==
    LET key == search_key(query, location, num_results)
    IN  IF ~client THEN [value |-> <<>>, cache |-> cache, reqs |-> <<>>, path |-> "noclient"]
        ELSE IF reply.main = "raise"
        THEN [value |-> <<>>, cache |-> cache, reqs |-> <<"search">>, path |-> "raised"]
        ELSE LET search_results == <<"claude_web_search">> \o extracted_results(reply)
             IN  [value |-> search_results, cache |-> cache_store(cache, key, search_results),
                  reqs |-> <<"search">> \o extractor_requests(reply), path |-> "stored"]

\* EnhancedSentimentAnalyzer.web_search; a result is kept by its 'source'
web_search(cache, client, query, location, num_results, reply) ==
    LET key == search_key(query, location, num_results)
    IN  IF key \in DOMAIN cache
        THEN [value |-> cache[key], cache |-> cache, reqs |-> <<>>, path |-> "hit"]
        ELSE IF ~client
        THEN [value |-> <<>>, cache |-> cache, reqs |-> <<>>, path |-> "noclient"]
        ELSE IF reply.main = "raise"
        THEN [value |-> <<>>, cache |-> cache, reqs |-> <<"search">>, path |-> "raised"]
        ELSE LET search_results == <<"claude_web_search">> \o extracted_results(reply)
             IN  [value |-> search_results, cache |-> cache_store(cache, key, search_results),
                  reqs |-> <<"search">> \o extractor_requests(reply), path |-> "stored"]

\* a call of web_search(query, location) from outside
WebSearch ==
    /\ sc_pc = "idle" /\ n_calls < MaxCalls
    /\ \E query \in SearchQueries, reply \in WebSearchReplies :
       \E d \in {web_search(search_cache, claude_client, query, "kondapur",
                            DefaultNumResults, reply)} :
          /\ sc_call' = [NoCall EXCEPT !.op = "search", !.location = "kondapur",
                                       !.text = <<query>>]
          /\ sc_ret' = Returned(d.value)
          /\ search_cache' = d.cache
          /\ sc_reqs' = d.reqs
          /\ sc_path' = d.path
          /\ sc_failed' = (d.path = "raised" \/ (reply.extract = "raise" /\ reply.subjects # {}
                                                 /\ d.path = "stored"))
    /\ sc_pc' = "returned"
    /\ UNCHANGED <<claude_client, n_calls, notSearchVars>>

(***************************************************************************)
(* TextCleaner.clean_text.  A text is its words with the white space       *)
(* between them, each as one token; '' is <<>>.                            *)
(***************************************************************************)
MaxWords == 2       \* most words of a text handed to clean_text

CleanerWords == {"Flat", "The", "Go", "Investing", "2BHK!", "#Deal", "HTTP://X.in", "Me@X.in"}

\* ' '.join(words)
join_words(words) ==
    [i \in 1 .. (2 * Len(words) - 1) |-> IF i % 2 = 1 THEN words[(i + 1) \div 2] ELSE " "]

\* the texts clean_text is exercised on: '', ' ', and up to MaxWords words
\* with or without a leading blank
CleanerTexts ==
    {<<>>, <<" ">>}
        \cup {lead \o join_words(words) :
                lead \in {<<>>, <<" ">>}, words \in SeqsUpTo(CleanerWords, MaxWords) \ {<<>>}}

\* the step that raises: none, word_tokenize (its punkt data are missing), or
\* the stemmer
CleanerFaults == {"none", "tokenize", "stem"}

\* a substitution applied to every word of a text
MapWords(step(_), text) ==
    [i \in DOMAIN text |-> IF text[i] = " " THEN " " ELSE step(text[i])]

\* re.sub(r'http\S+|www\S+|https\S+', '', text) on one word
without_urls(word) == IF word = "http://x.in" THEN "" ELSE word
\* re.sub(r'\S+@\S+', '', text)
without_emails(word) == IF word = "me@x.in" THEN "" ELSE word
\* re.sub(r'[@#]\w+', '', text)
without_mentions(word) == IF word = "#deal" THEN "" ELSE word
\* re.sub(r'[^a-zA-Z\s]', '', text)
letters_only(word) == IF word = "2bhk!" THEN "bhk" ELSE word

\* text.split()
split_words(text) == SelectSeq(text, LAMBDA tok : tok \notin {" ", ""})

\* set(stopwords.words('english')), as far as the words of the model go
stop_words == {"the"}
\* len(token)
word_len(word) ==
    CASE word = "go" -> 2
      [] word \in {"the", "bhk"} -> 3
      [] word = "flat" -> 4
      [] OTHER -> 9
\* PorterStemmer.stem
stem(word) == IF word = "investing" THEN "invest" ELSE word

\* lines 35-50: text after lower(), the four substitutions and the white
\* space normalisation
normalised(text) ==
    join_words(split_words(
        MapWords(letters_only,
            MapWords(without_mentions,
                MapWords(without_emails,
                    MapWords(without_urls, Lower(text)))))))

\* the try block of clean_text (33-61); text is the local variable at the
\* moment of the return or of the exception
clean_attempt(text, fault) ==
    LET text50 == normalised(text)
        tokens == split_words(text50)
        kept == SelectSeq(tokens, LAMBDA token : token \notin stop_words /\ word_len(token) > 2)
    IN  IF fault = "tokenize"
        THEN [outcome |-> "raised", value |-> <<>>, text |-> text50]
        ELSE IF fault = "stem" /\ kept # <<>>
        THEN [outcome |-> "raised", value |-> <<>>, text |-> text50]
        ELSE [outcome |-> "returned", value |-> join_words([i \in DOMAIN kept |-> stem(kept[i])]),
              text |-> text50]

\* TextCleaner.clean_text(text): the except handler returns the local text
clean_text(text, fault) ==
    IF text = <<>> THEN <<>>
    ELSE LET try == clean_attempt(text, fault)
         IN  IF try.outcome = "raised" THEN try.text ELSE try.value

IdleCleaner == cl_text = <<>> /\ cl_fault = "none" /\ cl_result = <<>> /\ cl_pc = "off"

CleanerInit ==
    /\ cl_text \in CleanerTexts /\ cl_fault \in CleanerFaults
    /\ cl_result = <<>> /\ cl_pc = "ready"

\* a call of clean_text
RunCleaner ==
    /\ cl_pc = "ready"
    /\ cl_result' = clean_text(cl_text, cl_fault)
    /\ cl_pc' = "done"
    /\ UNCHANGED <<cl_text, cl_fault, notCleanerVars>>

(***************************************************************************)
(* InstagramScraper._get_all_post_comments: the pagination of a post's     *)
(* comments.                                                               *)
(***************************************************************************)
MaxThread == 5      \* most comments and replies the provider holds for a post

\* the 'next' links the provider hands out
NextLinks == {"page_a", "page_b", "page_c"}
NoLink == "<no next>"

\* what one comment of a page adds: nothing when its text is blank or no
\* longer than 3 characters, itself, or itself and a reply
CommentKinds == {<<>>, <<"comment">>, <<"comment", "reply">>}

\* the answers to one request: an exception (time-out, no JSON), a status
\* other than 200, or a page of comments with or without a 'next' link; the
\* provider has no more than MaxThread comments to deliver
PageReplies(held) ==
    {[kind |-> k, data |-> <<>>, next |-> NoLink] : k \in {"raise", "error"}}
        \cup {[kind |-> "page", data |-> d, next |-> n] :
                d \in {c \in CommentKinds : held + Len(c) <= MaxThread},
                n \in NextLinks \cup {NoLink}}

IdleComments == gc_pc = "off" /\ gc_url = "none" /\ gc_params = FALSE /\ all_comments = <<>>

CommentsInit == gc_pc = "idle" /\ gc_url = "none" /\ gc_params = FALSE /\ all_comments = <<>>

\* _get_all_post_comments(media_id) up to its loop (646-668)
GetAllPostComments ==
    /\ gc_pc = "idle"
    /\ \E media_id \in {"", "m1"}, token \in BOOLEAN, type \in {"business", "basic_display"} :
          IF media_id = "" \/ ~token
          THEN /\ gc_pc' = "returned"
               /\ UNCHANGED <<gc_url, gc_params>>
          ELSE /\ gc_pc' = "fetching"
               /\ gc_url' = IF type = "business" THEN "graph_url" ELSE "base_url"
               /\ gc_params' = TRUE
    /\ all_comments' = <<>>
    /\ UNCHANGED notCommentVars

\* one round of the while True loop (670-724)
FetchComments ==
    /\ gc_pc = "fetching"
    /\ \E reply \in PageReplies(Len(all_comments)) :
          IF reply.kind = "page"
          THEN /\ all_comments' = all_comments \o reply.data
               /\ IF reply.next # NoLink
                  THEN /\ gc_url' = reply.next
                       /\ gc_params' = FALSE
                       /\ UNCHANGED gc_pc
                  ELSE /\ gc_pc' = "returned"
                       /\ UNCHANGED <<gc_url, gc_params>>
          ELSE /\ gc_pc' = "returned"
               /\ UNCHANGED <<gc_url, gc_params, all_comments>>
    /\ UNCHANGED notCommentVars

\* the caller takes the comments; the next post's comments can be asked for
CommentsTaken ==
    /\ gc_pc = "returned"
    /\ gc_pc' = "idle" /\ gc_url' = "none" /\ gc_params' = FALSE /\ all_comments' = <<>>
    /\ UNCHANGED notCommentVars

(***************************************************************************)
(* Specifications.                                                         *)
(***************************************************************************)
InitFilter == FilterInit /\ IdleFallback /\ IdleAgg /\ IdleScorer /\ IdleAdapter /\ IdleExtractor
    /\ IdlePipeline /\ IdleCleaner /\ IdleComments
NextFilter == RunFilter
SpecFilter == InitFilter /\ [][NextFilter]_vars

InitFallback == IdleFilter /\ FallbackInit /\ IdleAgg /\ IdleScorer /\ IdleAdapter /\ IdleExtractor
    /\ IdlePipeline /\ IdleCleaner /\ IdleComments
NextFallback == RunFallback
SpecFallback == InitFallback /\ [][NextFallback]_vars

InitAgg == IdleFilter /\ IdleFallback /\ AggInit /\ IdleScorer /\ IdleAdapter /\ IdleExtractor
    /\ IdlePipeline /\ IdleCleaner /\ IdleComments
NextAgg == RunMetrics
SpecAgg == InitAgg /\ [][NextAgg]_vars

InitScore == IdleFilter /\ IdleFallback /\ IdleAgg /\ ScorerInit /\ IdleAdapter /\ IdleExtractor
    /\ IdlePipeline /\ IdleCleaner /\ IdleComments
NextScore == ScoreOne \/ ScoreBatch \/ Combined \/ BatchChunk \/ BatchItem \/ Aggregate \/ Return
SpecScore == InitScore /\ [][NextScore]_vars

\* every method of the analyzer that reads or writes one of its caches
NextStore ==
    \/ ScoreOne \/ WebSearch \/ ScoreBatch \/ Combined \/ BatchChunk \/ BatchItem
    \/ Aggregate \/ Return
SpecStore == InitScore /\ [][NextStore]_vars

\* the scorer called through analyze_sentiment only
NextCache == ScoreOne \/ Return
SpecCache == InitScore /\ [][NextCache]_vars

InitExtract ==
    IdleFilter /\ IdleFallback /\ IdleAgg /\ IdleScorer /\ IdleAdapter /\ ExtractorInit
    /\ IdlePipeline /\ IdleCleaner /\ IdleComments
NextExtract == RunExtractor
SpecExtract == InitExtract /\ [][NextExtract]_vars

InitClean ==
    IdleFilter /\ IdleFallback /\ IdleAgg /\ IdleScorer /\ IdleAdapter /\ IdleExtractor
    /\ IdlePipeline /\ CleanerInit /\ IdleComments
NextClean == RunCleaner
SpecClean == InitClean /\ [][NextClean]_vars

InitComments ==
    IdleFilter /\ IdleFallback /\ IdleAgg /\ IdleScorer /\ IdleAdapter /\ IdleExtractor
    /\ IdlePipeline /\ IdleCleaner /\ CommentsInit
NextComments == GetAllPostComments \/ FetchComments \/ CommentsTaken
\* the loop is not held up from outside: every request is answered or times
\* out (timeout=15), and the thread goes on
SpecComments == InitComments /\ [][NextComments]_vars /\ WF_vars(FetchComments)

InitPipeline ==
    IdleFilter /\ IdleFallback /\ IdleAgg /\ IdleScorer /\ IdleAdapter /\ IdleExtractor
    /\ PipelineInit /\ IdleCleaner /\ IdleComments
NextPipeline == InitializeComponents \/ StartAnalysis \/ ScrapeSource \/ FinishAnalysis
SpecPipeline == InitPipeline /\ [][NextPipeline]_vars

InitScrape == IdleFilter /\ IdleFallback /\ IdleAgg /\ IdleScorer /\ AdapterInit /\ IdleExtractor
    /\ IdlePipeline /\ IdleCleaner /\ IdleComments
NextScrape ==
    \/ BaseIsConfigured \/ YouTubeIsConfigured \/ RedditIsConfigured
    \/ ClaudeIsConfigured \/ InstagramIsConfigured
    \/ NewsScrape \/ TwitterScrape \/ YouTubeScrape \/ RedditScrape
    \/ ClaudeScrape \/ InstagramScrape \/ AdapterReturn
SpecScrape == InitScrape /\ [][NextScrape]_vars

(***************************************************************************)
(* Properties of the Instagram filter.                                     *)
(***************************************************************************)
\* the lowercase 150-character prefix of a text: text[:150].lower()
LowerPrefix(text) == Lower(Prefix(text, HashPrefixLen))

\* C6: the filter never emits two items whose lowercase 150-character text
\* prefixes are equal.
C6_NoEqualPrefixesEmitted ==
    filter_pc = "done" =>
        \A i, j \in DOMAIN unique_results :
            i # j => LowerPrefix(unique_results[i].text) # LowerPrefix(unique_results[j].text)

\* C6's case: two items with different texts and equal lowercase prefixes were
\* both handed in, the first was emitted, and something else was emitted too
C6_Witness ==
    /\ filter_pc = "done"
    /\ Len(unique_results) >= 2
    /\ \E i, j \in DOMAIN results :
          /\ i < j
          /\ results[i].text # results[j].text
          /\ LowerPrefix(results[i].text) = LowerPrefix(results[j].text)
          /\ \E k \in DOMAIN unique_results : unique_results[k] = results[i]

Emitted(text) == \E k \in DOMAIN unique_results : unique_results[k].text = text

FirstOfHash(i) ==
    \A j \in 1 .. i - 1 : content_hash(results[j].text) # content_hash(results[i].text)

\* C19 as stated: an item that passes the duplicate and relevance rules is
\* rejected exactly when its stripped text has fewer than 15 characters, so one
\* with exactly 15 characters is emitted.
C19_RejectedBelowFifteen ==
    filter_pc = "done" =>
        \A i \in DOMAIN results :
            (FirstOfHash(i) /\ is_location_relevant(results[i].text, "hyderabad")) =>
                (Emitted(results[i].text) <=> StrLen(Strip(results[i].text)) >= 15)

\* C19 as the code has it: an item that passes the duplicate and relevance
\* rules is rejected exactly when its stripped text has at most 15 characters;
\* one with exactly 15 characters is rejected, one with 16 is emitted.
C19_RejectedUpToFifteen ==
    filter_pc = "done" =>
        \A i \in DOMAIN results :
            (FirstOfHash(i) /\ is_location_relevant(results[i].text, "hyderabad")) =>
                (Emitted(results[i].text) <=> StrLen(Strip(results[i].text)) >= 16)

\* C19's case: a relevant first item of exactly 15 characters was rejected and
\* one of 16 characters was emitted
C19_Witness ==
    /\ filter_pc = "done"
    /\ \E i \in DOMAIN results :
          /\ FirstOfHash(i) /\ is_location_relevant(results[i].text, "hyderabad")
          /\ StrLen(Strip(results[i].text)) = 15 /\ ~Emitted(results[i].text)
    /\ \E i \in DOMAIN results :
          StrLen(Strip(results[i].text)) = 16 /\ Emitted(results[i].text)

(***************************************************************************)
(* Properties of the keyword fallback.                                     *)
(***************************************************************************)
\* C8: the fallback's score s satisfies -0.8 <= s <= 0.8, and its label is
\* Positive iff s > 0.1, Negative iff s < -0.1, Neutral otherwise.
C8_FallbackScoreAndLabel ==
    fb_pc = "done" =>
        /\ -80 <= fb_result.score /\ fb_result.score <= 80
        /\ fb_result.sentiment = "Positive" <=> fb_result.score > 10
        /\ fb_result.sentiment = "Negative" <=> fb_result.score < -10
        /\ fb_result.sentiment = "Neutral" <=> (fb_result.score >= -10 /\ fb_result.score <= 10)
        /\ fb_result.sentiment \in {"Positive", "Negative", "Neutral"}

\* C8's case: enough positive hits for the clamp at 0.8 to cut the score
C8_Witness ==
    /\ fb_pc = "done"
    /\ fb_result.P - fb_result.N > 0
    /\ 30 + 10 * fb_result.P > 80
    /\ fb_result.score = 80

\* C17 as stated: on "Overpriced, risky, declining market, avoid" the fallback
\* answers Negative with score -0.8, and at least 4 negative hits that
\* outnumber the positive hits always give -0.8.
C17_ClampedAtFourHits ==
    fb_pc = "done" =>
        /\ fb_text = OverpricedText =>
              fb_result.sentiment = "Negative" /\ fb_result.score = -80
        /\ (fb_result.N >= 4 /\ fb_result.N > fb_result.P) => fb_result.score = -80

\* C17 as the code has it: the text has 4 negative hits and no positive hit and
\* gets Negative with score -0.7; 4 negative hits that outnumber the positive
\* hits give -0.7, and the clamp at -0.8 is reached from 5 such hits on.
C17_ClampedFromFiveHits ==
    fb_pc = "done" =>
        /\ fb_text = OverpricedText =>
              /\ fb_result.N = 4 /\ fb_result.P = 0
              /\ fb_result.sentiment = "Negative" /\ fb_result.score = -70
        /\ (fb_result.N = 4 /\ fb_result.N > fb_result.P) => fb_result.score = -70
        /\ (fb_result.N >= 5 /\ fb_result.N > fb_result.P) => fb_result.score = -80

\* C17's case: the fallback has scored the text of the scenario
C17_Witness ==
    /\ fb_pc = "done" /\ fb_text = OverpricedText
    /\ fb_result.N = 4 /\ fb_result.sentiment = "Negative"

(***************************************************************************)
(* Properties of the aggregate metrics.                                    *)
(***************************************************************************)
IndicesWith(label) == {i \in DOMAIN sentiment_results : sentiment_results[i].sentiment = label}

\* C9: for a non-empty list of N results the three counts sum to
\* N = total_items_analyzed, positive_ratio is positive_count / N, the average
\* is the sum of the scores over N, overall_sentiment follows the 0.1
\* thresholds, and the ten-item example gives 0.3, 0.6 and Positive.
C9_AggregateMetrics ==
    (agg_pc = "done" /\ Len(sentiment_results) > 0) =>
        LET N == Len(sentiment_results)
            m == metrics
            avg == m.average_sentiment_score
        IN  /\ m.total_items_analyzed = N
            /\ m.positive_count + m.negative_count + m.neutral_count = N
            /\ m.positive_count = Cardinality(IndicesWith("Positive"))
            /\ m.negative_count = Cardinality(IndicesWith("Negative"))
            /\ m.positive_ratio.num * N = m.positive_count * m.positive_ratio.den
            /\ avg.den > 0
            /\ avg.num * (100 * N) = SumScores(sentiment_results) * avg.den
            /\ m.overall_sentiment = "Positive" <=> 10 * avg.num > avg.den
            /\ m.overall_sentiment = "Negative" <=> 10 * avg.num < -avg.den
            /\ m.overall_sentiment \in {"Positive", "Negative", "Neutral"}
            /\ sentiment_results = TenItems =>
                  /\ avg.num * 10 = 3 * avg.den
                  /\ m.positive_ratio.num * 10 = 6 * m.positive_ratio.den
                  /\ m.overall_sentiment = "Positive"

\* C9's case: the ten-item example has been aggregated
C9_Witness ==
    /\ agg_pc = "done"
    /\ sentiment_results = TenItems
    /\ metrics.total_items_analyzed = 10
    /\ metrics.positive_count = 6 /\ metrics.negative_count = 2 /\ metrics.neutral_count = 2

(***************************************************************************)
(* Properties of the sentiment scorer.                                     *)
(***************************************************************************)
\* analyze_sentiment has returned to an outside caller that had already called
\* it with the same non-blank text and the same location
SecondScoreOne ==
    /\ sc_pc = "returned" /\ sc_call.op = "one"
    /\ Strip(sc_call.text) # <<>>
    /\ \E s \in scored : s.text = sc_call.text /\ s.location = sc_call.location

\* an earlier call with the same text and location took one of the given paths
EarlierPath(paths) ==
    \E s \in scored :
        s.text = sc_call.text /\ s.location = sc_call.location /\ s.path \in paths

C4_EveryTextScoredOnFailure ==
    (sc_pc = "returned" /\ sc_call.op \in {"one", "batch"}) =>
        /\ sc_ret.outcome = "returned"
        /\ (sc_failed /\ sc_call.op = "batch") =>
              /\ Len(sc_ret.value) >= Len(sc_call.texts)
              /\ sc_reqs = <<"test">> => sc_ret.value = fallback_all(sc_call.texts)
        /\ (sc_failed /\ sc_call.op = "one" /\ sc_reqs = <<"test">>) =>
              sc_ret.value = fallback_result(sc_call.text)

\* C5: whenever at least one item has non-empty text, analyze_combined_data
\* returns the numeric report, not an error report, whatever list of results
\* the scorer returned and whatever happened to the narrative.
C5_NarrativeNeverAborts ==
    (sc_pc = "returned" /\ sc_call.op = "combined" /\ sc_call.texts # <<>>) =>
        sc_ret.value.kind = "report"

(***************************************************************************)
(* Properties of the source adapters.                                      *)
(***************************************************************************)
\* a scrape call has returned to its caller, or raised
ScrapeEnded == ad_pc = "returned" /\ ad_call.op = "scrape"

\* C1: for every source adapter, query and limit, scrape never raises to its
\* caller: whatever fails inside (a request that raises, a bad status, an
\* element that cannot be parsed, a failed configuration test), the call
\* returns a list -- empty, the items gathered so far, or fallback content.
C1_ScrapeNeverRaises ==
    ScrapeEnded =>
        /\ ad_ret.outcome = "returned"
        /\ Len(ad_ret.value) <= ad_fetched

\* a scrape in which a step failed and that still returned items
C1_Witness ==
    /\ ScrapeEnded /\ ad_faulted
    /\ ad_ret.outcome = "returned" /\ ad_ret.value # <<>>

\* C2: for every source adapter and every limit >= 0, the list scrape
\* returns has at most limit items, whatever the provider delivered and
\* whichever phases or fallbacks ran.
C2_AtMostLimitItems ==
    (ScrapeEnded /\ ad_call.limit >= 0) => Len(ad_ret.value) <= ad_call.limit

\* a scrape that gathered more than a positive limit and returned limit items
C2_Witness ==
    /\ ScrapeEnded /\ ad_call.limit > 0
    /\ ad_fetched > ad_call.limit
    /\ Len(ad_ret.value) = ad_call.limit

\* C10: for every adapter variant, an instance with credentials present
\* whose configuration test fails (Degraded) still returns true from
\* is_configured, and is_configured returns false only when Unconfigured.
C10_DegradedStillAvailable ==
    (ad_pc = "returned" /\ ad_call.op = "is_configured") =>
        /\ ConfigState = "Degraded" => ad_ret.available
        /\ ~ad_ret.available => ConfigState = "Unconfigured"

(***************************************************************************)
(* Properties of analyze_sentiment on an empty text.                       *)
(***************************************************************************)
\* C18: analyze_sentiment on an empty or blank text returns Neutral, score 0.0,
\* confidence 0.0, analysis type 'empty', for every location, client and cache,
\* issues no request and leaves the sentiment cache as it was (the return
\* taken is the one before the cache lookup).
C18_EmptyTextShortCircuits ==
    [][(sc_pc' = "returned" /\ sc_call'.op = "one" /\ Strip(sc_call'.text) = <<>>) =>
          /\ sc_ret' = Returned(empty_result)
          /\ sc_reqs' = <<>>
          /\ sc_path' = "empty"
          /\ sentiment_cache' = sentiment_cache]_vars

\* C18's case: a blank text scored by an analyzer that has a client and a
\* cache that is not empty
C18_Witness ==
    /\ sc_pc = "returned" /\ sc_call.op = "one"
    /\ sc_call.text = <<" ">> /\ sc_call.location # None
    /\ claude_client /\ sentiment_cache # <<>>
    /\ sc_ret.value.analysis_type = "empty"

(***************************************************************************)
(* Properties of the location extractor.                                   *)
(***************************************************************************)
\* the gazetteer entries, and the variations, that occur in the text
GazetteerHits ==
    {i \in DOMAIN HYDERABAD_LOCALITIES :
        HasPhrase(Lower(le_text), HYDERABAD_LOCALITIES[i].lower)}
VariationHits ==
    {i \in DOMAIN locality_variations :
        HasPhrase(Lower(le_text), locality_variations[i].variant)}
Least(S) == CHOOSE i \in S : \A j \in S : i <= j

\* C20: extract_location returns the first locality in gazetteer order that
\* occurs in the text, ignoring case and wherever it occurs; only when no
\* locality occurs does it return the canonical name of a variation that
\* occurs (the first in table order), so "Great flats near Hitec city" gives
\* "hitech city"; when neither occurs it returns None.
C20_GazetteerThenVariations ==
    le_pc = "done" =>
        /\ GazetteerHits # {} =>
              le_result = HYDERABAD_LOCALITIES[Least(GazetteerHits)].name
        /\ (GazetteerHits = {} /\ VariationHits # {}) =>
              le_result = locality_variations[Least(VariationHits)].standard_name
        /\ (GazetteerHits = {} /\ VariationHits = {}) => le_result = None
        /\ le_text = HitecText => le_result = "hitech city"

\* C20's case: the text of the scenario was resolved through the variations
C20_Witness ==
    /\ le_pc = "done" /\ le_text = HitecText
    /\ GazetteerHits = {} /\ VariationHits # {}
    /\ le_result = "hitech city"

(***************************************************************************)
(* Properties of the scorer's caches and of the shape of its results.      *)
(***************************************************************************)
\* the number of requests of one kind among reqs
CountOf(reqs, kind) == Cardinality({i \in DOMAIN reqs : reqs[i] = kind})

\* an earlier analyze_sentiment call for this location got its market context
ContextReturnedFor(location) ==
    \E s \in scored : s.location = location /\ s.path \in {"json", "text_parsed"}

\* C13: at most one market-context request is issued per location: a call
\* issues at most one, and none once an earlier call for its location has got
\* the market context.
C13_OneContextRequestPerLocation ==
    /\ CountOf(sc_reqs, "context") <= 1
    /\ (sc_pc = "returned" /\ sc_call.location # None /\ ContextReturnedFor(sc_call.location))
          => CountOf(sc_reqs, "context") = 0

\* an earlier analyze_sentiment call stored its answer under the key of text
StoredEarlier(text, location) ==
    \E s \in scored :
        s.path = "json" /\ cache_key(s.text, s.location) = cache_key(text, location)

\* C14: analyze_sentiment_batch keeps the cache of analyze_sentiment: texts
\* whose answers are all cached are not sent in a batch request, and after a
\* batch call that went through without a failure every text is in the cache.
C14_BatchKeepsTheCache ==
    (sc_pc = "returned" /\ sc_call.op = "batch" /\ sc_call.texts # <<>>) =>
        /\ (\A i \in DOMAIN sc_call.texts : StoredEarlier(sc_call.texts[i], sc_call.location))
              => CountOf(sc_reqs, "batch") = 0
        /\ (CountOf(sc_reqs, "batch") > 0 /\ ~sc_failed) =>
              \A i \in DOMAIN sc_call.texts :
                  cache_key(sc_call.texts[i], sc_call.location) \in DOMAIN sentiment_cache

\* a result of the shape both strategies promise; scores and confidences are
\* in hundredths
Shaped(r) ==
    /\ r.analysis_type \notin {Absent, NonDict}
    /\ r.sentiment \in {"Positive", "Negative", "Neutral"}
    /\ r.score \in -100 .. 100
    /\ r.confidence \in 0 .. 100
    /\ r.reason # Absent

\* C15: every result analyze_sentiment or analyze_sentiment_batch returns has
\* sentiment Positive, Negative or Neutral, a score in [-1, 1], a confidence in
\* [0, 1] and a reason.
C15_SameResultShape ==
    sc_pc = "returned" =>
        /\ sc_call.op = "one" => Shaped(sc_ret.value)
        /\ sc_call.op = "batch" => \A i \in DOMAIN sc_ret.value : Shaped(sc_ret.value[i])

(***************************************************************************)
(* Properties of the items the adapters return.                            *)
(***************************************************************************)
\* C16: every item scrape returns names the adapter as its source (in its
\* 'source' key, or in its metadata) and has a timestamp, taken from the
\* origin or from the current time.
C16_ItemsTaggedWithSource ==
    ScrapeEnded =>
        \A i \in DOMAIN ad_ret.value :
            /\ ad_ret.value[i].source = adapter \/ ad_ret.value[i].metadata_source = adapter
            /\ ad_ret.value[i].timestamp \in {"origin", "now"}

(***************************************************************************)
(* The application: properties.                                            *)
(***************************************************************************)
\* C11: when the secret an adapter needs is missing, the finished run still
\* holds items for that source, synthetic ones, rather than nothing
C11_MissingSecretYieldsFallbackItems ==
    pl_pc = "done" =>
        \A name \in NeedsSecret :
            ~components.scrapers[name].secret =>
                /\ name \in DOMAIN pl_scraped_data
                /\ pl_scraped_data[name] # <<>>
                /\ \A i \in DOMAIN pl_scraped_data[name] : pl_scraped_data[name][i].demo

\* C12: when the cloud strategy is configured, every item of every source is
\* given to the cloud strategy first, and the keyword fallback produces an
\* item's result only after the cloud attempt on that item failed
C12_CloudFirstForEveryItem ==
    components.claude_configured =>
        \A name \in DOMAIN pl_tried :
            \A i \in DOMAIN pl_tried[name] :
                /\ pl_tried[name][i].cloud
                /\ pl_tried[name][i].fallback => pl_tried[name][i].failed

(***************************************************************************)
(* The filter: what a rejected item leaves behind.                         *)
(***************************************************************************)
\* results[i] passes the length rule and the relevance rule
PassesRules(i) ==
    /\ is_substantial_text(results[i].text)
    /\ is_location_relevant(results[i].text, "hyderabad")

\* results[i] passes both rules and no earlier item that passes them has its
\* content hash
KeptAt(i) ==
    /\ PassesRules(i)
    /\ \A j \in 1 .. i - 1 :
          content_hash(results[j].text) = content_hash(results[i].text) => ~PassesRules(j)

\* the items of results at the places where KeptAt holds, in input order
KeptInOrder ==
    LET places == SelectSeq([i \in DOMAIN results |-> i], KeptAt)
    IN  [k \in DOMAIN places |-> results[places[k]]]

\* C29: a rejected item leaves nothing in the seen-set: the filter emits, in
\* input order, exactly the items that pass the length and relevance rules and
\* whose hash no earlier passing item has; an earlier rejected item with the
\* same prefix does not keep a later passing one out
C29_RejectedItemsLeaveNoTrace ==
    filter_pc = "done" => unique_results = KeptInOrder

\* C29's case: an item was rejected, a later item with the same lowercase
\* 150-character prefix passed the rules and was emitted
C29_Witness ==
    /\ filter_pc = "done"
    /\ \E i, j \in DOMAIN results :
          /\ i < j
          /\ LowerPrefix(results[i].text) = LowerPrefix(results[j].text)
          /\ ~PassesRules(i) /\ PassesRules(j)
          /\ Emitted(results[j].text)
          /\ ~Emitted(results[i].text)

(***************************************************************************)
(* LocationExtractor: the names it reports.                                *)
(***************************************************************************)
\* the spellings of Config.HYDERABAD_LOCALITIES
GazetteerNames == {HYDERABAD_LOCALITIES[i].name : i \in DOMAIN HYDERABAD_LOCALITIES}

\* C30: every value other than None that extract_location returns is a name
\* of the gazetteer in the gazetteer's spelling, whether the gazetteer or the
\* variation table produced it
C30_ResolvedNamesAreCanonical ==
    (le_pc = "done" /\ le_result # None) => le_result \in GazetteerNames

(***************************************************************************)
(* The sentiment cache: whose result a hit returns.                        *)
(***************************************************************************)
\* C28: a call of analyze_sentiment that is served from the cache returns a
\* result that was computed for the same full text and the same location: an
\* earlier call with that text and location stored the LLM's answer
C28_HitIsForTheSameText ==
    (sc_pc = "returned" /\ sc_call.op = "one" /\ sc_path = "hit") =>
        \E s \in scored :
            /\ s.text = sc_call.text /\ s.location = sc_call.location
            /\ s.path \in {"json", "hit"}

(***************************************************************************)
(* The two caches over a run.                                              *)
(***************************************************************************)
\* every entry of the cache before a step is in the cache after it, unchanged
Kept(before, after) ==
    \A k \in DOMAIN before : k \in DOMAIN after /\ after[k] = before[k]

\* the values json.loads makes of the LLM's answer to the scoring prompt
FromLLM(result) == result.analysis_type \in {"comprehensive", Absent, NonDict}

\* C26: both caches are append-only: no step of analyze_sentiment,
\* analyze_sentiment_batch, web_search or analyze_combined_data removes an
\* entry or replaces its value, and what a step adds is the parsed answer of
\* an LLM request that succeeded, never a fallback or text-parsed result
C26_CachesAppendOnly ==
    [][/\ Kept(sentiment_cache, sentiment_cache')
       /\ Kept(search_cache, search_cache')
       /\ \A k \in DOMAIN sentiment_cache' \ DOMAIN sentiment_cache :
             /\ FromLLM(sentiment_cache'[k])
             /\ "score" \in {sc_reqs'[i] : i \in DOMAIN sc_reqs'}
       /\ \A k \in DOMAIN search_cache' \ DOMAIN search_cache :
             /\ Head(search_cache'[k]) = "claude_web_search"
             /\ sc_reqs' # <<>> /\ Head(sc_reqs') = "search"]_vars

\* C26's case: an entry was stored in the sentiment cache, and a later call of
\* web_search stored one in the search cache
C26_Witness ==
    /\ sc_pc = "returned" /\ sc_call.op = "search" /\ sc_path = "stored"
    /\ sentiment_cache # <<>> /\ search_cache # <<>>

(***************************************************************************)
(* analyze_sentiment_batch: one result per text.                           *)
(***************************************************************************)
\* C27: analyze_sentiment_batch(texts, location) returns exactly len(texts)
\* results, whatever the LLM answers
C27_OneResultPerText ==
    (sc_pc = "returned" /\ sc_call.op = "batch" /\ sc_ret.outcome = "returned") =>
        Len(sc_ret.value) = Len(sc_call.texts)

\* ---------------------------------------------------------------------------
\* analyze_sentiment_batch: the batches and the pauses between them
\* ---------------------------------------------------------------------------

MaxChunks == 3      \* most rounds of the loop of analyze_sentiment_batch

\* a list of n texts that tells its positions apart: it starts with LongGood,
\* ends with LongBad and has empty and blank texts in between
Spread(n) ==
    [i \in 1..n |-> IF i = 1 THEN LongGood ELSE IF i = n THEN LongBad
                    ELSE IF i % 2 = 0 THEN <<>> ELSE <<" ">>]

\* lists that fill a batch, or leave one text for the next batch
LongBatches ==
    {Spread(k * BatchSize) : k \in 1..(MaxChunks - 1)}
        \cup {Spread(k * BatchSize + 1) : k \in 1..(MaxChunks - 1)}

\* a call of analyze_sentiment_batch(texts, location) with more texts than one
\* batch holds
ScoreLongBatch ==
    /\ sc_pc = "idle" /\ n_calls < MaxCalls
    /\ \E texts \in LongBatches, location \in Locations, test \in TestReplies, ctx \in ContextReplies :
          /\ sc_call' = [NoCall EXCEPT !.op = "batch", !.texts = texts, !.location = location]
          /\ StartBatch("batch", texts, test, ctx, <<>>, FALSE)
    /\ UNCHANGED <<claude_client, sentiment_cache, sc_path, scored, n_calls, notScorerVars>>

NextBatch == ScoreBatch \/ ScoreLongBatch \/ BatchChunk \/ BatchItem \/ Return
SpecBatch == InitScore /\ [][NextBatch]_vars

\* ceil(n / batch_size)
BatchCount(n) == (n + BatchSize - 1) \div BatchSize

\* texts[i:i + batch_size] for i in range(0, len(texts), batch_size)
BatchesOf(texts) ==
    [k \in 1..BatchCount(Len(texts)) |->
        SubSeq(texts, (k - 1) * BatchSize + 1, Min(k * BatchSize, Len(texts)))]

\* the call got past is_configured() and into the loop: the market context
\* was asked for
CloudConfigured == sc_call.op = "batch" /\ CountOf(sc_reqs, "context") > 0

\* the rounds of the loop: round k is entered after k - 1 pauses, and the call
\* returns after one pause fewer than it has batches
RoundsAndPauses ==
    /\ (sc_pc \in {"chunk", "items"} /\ sc_call.op = "batch") => sleeps * BatchSize = batch_i
    /\ (sc_pc = "returned" /\ CloudConfigured) =>
          sleeps = BatchCount(Len(sc_call.texts)) - 1

\* C24: with the cloud strategy configured, analyze_sentiment_batch on n texts
\* sends the texts in input order in ceil(n/10) batch requests of at most 10
\* texts each, one after the other, and pauses after every batch but the last
C24_BatchesInOrderWithPauses ==
    /\ RoundsAndPauses
    /\ (sc_pc = "chunk" /\ sc_call.op = "batch") => Len(batch_sent) = sleeps
    /\ (sc_pc = "returned" /\ CloudConfigured) =>
          batch_sent = BatchesOf(prompt_texts(sc_call.texts))

\* what does hold: the batches that are sent are sent in input order, each
\* once, and all of them when the market context has the keys of the prompt
BatchesSentInOrder ==
    (sc_pc = "returned" /\ CloudConfigured) =>
        /\ HasPromptKeys(market_context) => batch_sent = BatchesOf(prompt_texts(sc_call.texts))
        /\ ~HasPromptKeys(market_context) => batch_sent = <<>>
        /\ \A k \in DOMAIN batch_sent : Len(batch_sent[k]) <= BatchSize

\* a call with three batches has returned
LongBatchReturned ==
    /\ sc_pc = "returned" /\ CloudConfigured /\ Len(sc_call.texts) = 2 * BatchSize + 1
    /\ Len(batch_sent) = 3 /\ sleeps = 2

\* ---------------------------------------------------------------------------
\* InstagramScraper.scrape: where synthetic content comes from
\* ---------------------------------------------------------------------------

\* the items of a result that no demo generator made
RealItems(items) == {i \in DOMAIN items : ~items[i].demo}

\* C25: the result of InstagramScraper.scrape holds the finds of the hashtag
\* search, the business accounts, the location accounts and the trending
\* discovery in this order (found of instagram_scrape), and it holds synthetic
\* demo content only if fewer than 10 real items were found
C25_DemoOnlyBelowTheFloor ==
    (ad_pc = "returned" /\ adapter = "instagram" /\ ad_call.op = "scrape"
        /\ ad_ret.outcome = "returned") =>
        ((\E i \in DOMAIN ad_ret.value : ad_ret.value[i].demo)
            => Cardinality(RealItems(ad_ret.value)) < DemoFloor)

\* ---------------------------------------------------------------------------
\* scrape_source_data: an item whose row could not be stored
\* ---------------------------------------------------------------------------

\* the processed items the inserts of a source were made for, in order
InsertedItems(source) == [n \in DOMAIN pl_inserts[source] |-> pl_inserts[source][n].item]

\* C22: a failed insert never removes its item: every item an insert was
\* attempted for is in the result list of its source whatever the insert's
\* outcome, and the items after it are processed and handed to the database
\* as well
C22_FailedInsertKeepsTheItem ==
    \A source \in DOMAIN pl_inserts :
        /\ source \in DOMAIN pl_scraped_data
        /\ components.db_ops => InsertedItems(source) = pl_scraped_data[source]
        /\ ~components.db_ops => pl_inserts[source] = <<>>

\* a run whose database failed on the first item of a source that has more
C22_Witness ==
    /\ pl_pc = "done" /\ components.db_ops
    /\ \E source \in DOMAIN pl_inserts :
          /\ Len(pl_inserts[source]) >= 2
          /\ pl_inserts[source][1].outcome # "stored"
          /\ Len(pl_scraped_data[source]) = Len(pl_inserts[source])

\* ---------------------------------------------------------------------------
\* clean_text: what comes back when a step raises
\* ---------------------------------------------------------------------------

\* a step of the call raised
CleanerFaulted == cl_text # <<>> /\ clean_attempt(cl_text, cl_fault).outcome = "raised"

\* C21: when a step of clean_text raises, clean_text returns the text it was
\* given, unchanged
C21_FaultReturnsTheInput ==
    (cl_pc = "done" /\ CleanerFaulted) => cl_result = cl_text

\* ---------------------------------------------------------------------------
\* _get_all_post_comments: does the pagination come to an end
\* ---------------------------------------------------------------------------

\* C23: every adapter call runs to completion whatever the provider answers:
\* a _get_all_post_comments call that has entered its pagination loop returns
C23_PaginationTerminates == (gc_pc = "fetching") ~> (gc_pc = "returned")

====
